---------------------------- MODULE Spec2Model ----------------------------
(***************************************************************************)
(* A model of the raw CAN signal codec of pcan_decode.py: encode_signal,   *)
(* create_message_data and decode_signal, applied by a caller to a byte    *)
(* buffer.                                                                 *)
(*                                                                         *)
(* A bytearray is a sequence of integers 0..255; the source's index i is   *)
(* the sequence's index i + 1.  Python integers are unbounded and its bit  *)
(* operators act on the infinite two's-complement form, which BitAnd,      *)
(* BitOr, BitNot, Shl and Shr reproduce.  A physical value, a factor or an *)
(* offset is an exact rational [num, den] with den > 0 where the claim is  *)
(* about the arithmetic of the reals, and a binary64 number, every         *)
(* operation rounded as Python rounds it, where it is about floats.        *)
(* CANInterface of can_interface.py and the sender, receiver and main of   *)
(* pcan_decode.py are modelled with the buses they open.                   *)
(***************************************************************************)
EXTENDS Integers, Sequences, FiniteSets, TLC

VARIABLES
    data_array,   \* the bytearray the caller holds
    trace,        \* the calls made so far, each with its arguments and result
    threads,      \* the frame of the call each thread is in
    can_interface,\* the CANInterface object
    buses,        \* the can.interface.Bus objects created so far
    exit_event    \* the threading.Event of main

vars == <<data_array, trace, threads, can_interface, buses, exit_event>>

---------------------------------------------------------------------------
(* Bounds of the model *)

MaxStartBit == 63
MaxLength == 10
MaxPairStartBit == 8
MaxPairLength == 6
MaxMsgLength == 9
MaxCalls == 3
MaxFloatLength == 5

MaxIfaceCalls == 4
MaxCycles == 2

---------------------------------------------------------------------------
(* Python's integer operators *)

Min(a, b) == IF a < b THEN a ELSE b
Max(a, b) == IF a > b THEN a ELSE b

RECURSIVE BitAnd(_, _)
BitAnd(a, b) ==
    IF a = 0 \/ b = 0 THEN 0
    ELSE IF a = -1 THEN b
    ELSE IF b = -1 THEN a
    ELSE ((a % 2) * (b % 2)) + 2 * BitAnd(a \div 2, b \div 2)

RECURSIVE BitOr(_, _)
BitOr(a, b) ==
    IF a = 0 THEN b
    ELSE IF b = 0 THEN a
    ELSE IF a = -1 \/ b = -1 THEN -1
    ELSE (IF (a % 2) = 1 \/ (b % 2) = 1 THEN 1 ELSE 0)
         + 2 * BitOr(a \div 2, b \div 2)

BitNot(a) == (-a) - 1
Shl(a, n) == a * (2 ^ n)
Shr(a, n) == a \div (2 ^ n)

(* Rationals: [num, den], den > 0 *)
Rat(n, d) == [num |-> n, den |-> d]
RatSub(a, b) == Rat(a.num * b.den - b.num * a.den, a.den * b.den)
RatAdd(a, b) == Rat(a.num * b.den + b.num * a.den, a.den * b.den)
RatMul(a, b) == Rat(a.num * b.num, a.den * b.den)
RatDiv(a, b) ==
    IF b.num > 0 THEN Rat(a.num * b.den, a.den * b.num)
    ELSE Rat(-(a.num * b.den), a.den * (-b.num))

(* int(x) of a float x: the integer part, rounding toward zero *)
IntTruncFloor(x) == x.num \div x.den
IntTrunc(x) ==
    IF x.num >= 0 THEN x.num \div x.den ELSE -((-x.num) \div x.den)

---------------------------------------------------------------------------
(* Python's float: the binary64 numbers, every operation rounded to the
   nearest number of Precision significant bits, ties to the even mantissa.
   The mantissas exceed a machine integer, so they are held as naturals of
   any size.  Subnormals, infinities and NaN are out of the reach of the
   values used here, and the sign of a zero is not kept. *)
Precision == 53
Base == 2 ^ 15

RECURSIVE Gcd(_, _)
Gcd(a, b) == IF b = 0 THEN a ELSE Gcd(b, a % b)

Norm(x) ==
    LET g == Gcd(IF x.num < 0 THEN -x.num ELSE x.num, x.den)
    IN  Rat(x.num \div g, x.den \div g)

(* Naturals of any size: limbs in base 2^15, least significant first, no
   zero limb at the top; <<>> is 0 *)
RECURSIVE Big(_)
Big(n) == IF n = 0 THEN <<>> ELSE <<n % Base>> \o Big(n \div Base)

RECURSIVE BigStrip(_)
BigStrip(a) ==
    IF a # <<>> /\ a[Len(a)] = 0 THEN BigStrip(SubSeq(a, 1, Len(a) - 1))
    ELSE a

RECURSIVE BigAddC(_, _, _)
BigAddC(a, b, carry) ==
    IF a = <<>> /\ b = <<>> THEN (IF carry = 0 THEN <<>> ELSE <<carry>>)
    ELSE LET s == (IF a = <<>> THEN 0 ELSE a[1])
                  + (IF b = <<>> THEN 0 ELSE b[1]) + carry
         IN  <<s % Base>>
             \o BigAddC(IF a = <<>> THEN <<>> ELSE Tail(a),
                        IF b = <<>> THEN <<>> ELSE Tail(b), s \div Base)

BigAdd(a, b) == BigAddC(a, b, 0)

(* a - b for a >= b *)
RECURSIVE BigSubB(_, _, _)
BigSubB(a, b, borrow) ==
    IF a = <<>> THEN <<>>
    ELSE LET d == a[1] - (IF b = <<>> THEN 0 ELSE b[1]) - borrow
         IN  <<d % Base>>
             \o BigSubB(Tail(a), IF b = <<>> THEN <<>> ELSE Tail(b),
                        IF d < 0 THEN 1 ELSE 0)

BigSub(a, b) == BigStrip(BigSubB(a, b, 0))

(* -1, 0, 1 as a < b, a = b, a > b *)
RECURSIVE BigCmp(_, _)
BigCmp(a, b) ==
    IF Len(a) # Len(b) THEN (IF Len(a) < Len(b) THEN -1 ELSE 1)
    ELSE IF a = <<>> THEN 0
    ELSE IF a[Len(a)] # b[Len(b)]
         THEN (IF a[Len(a)] < b[Len(b)] THEN -1 ELSE 1)
    ELSE BigCmp(BigStrip(SubSeq(a, 1, Len(a) - 1)),
                BigStrip(SubSeq(b, 1, Len(b) - 1)))

RECURSIVE BigMulSmall(_, _, _)
BigMulSmall(a, k, carry) ==
    IF a = <<>> THEN Big(carry)
    ELSE LET p == a[1] * k + carry
         IN  <<p % Base>> \o BigMulSmall(Tail(a), k, p \div Base)

RECURSIVE BigMul(_, _)
BigMul(a, b) ==
    IF a = <<>> \/ b = <<>> THEN <<>>
    ELSE BigAdd(BigMulSmall(a, b[1], 0),
                IF Tail(b) = <<>> THEN <<>> ELSE <<0>> \o BigMul(a, Tail(b)))

RECURSIVE Zeros(_)
Zeros(n) == IF n = 0 THEN <<>> ELSE <<0>> \o Zeros(n - 1)

(* a * 2^s *)
BigShl(a, s) ==
    IF a = <<>> THEN <<>>
    ELSE Zeros(s \div 15) \o BigMulSmall(a, 2 ^ (s % 15), 0)

(* floor(a / k) for a limb-sized k, limbs taken from the top *)
RECURSIVE BigDivSmall(_, _, _)
BigDivSmall(a, k, rem) ==
    IF a = <<>> THEN <<>>
    ELSE LET n == rem * Base + a[Len(a)]
         IN  BigDivSmall(SubSeq(a, 1, Len(a) - 1), k, n % k) \o <<n \div k>>

(* floor(a / 2^s) *)
BigShr(a, s) ==
    IF s \div 15 >= Len(a) THEN <<>>
    ELSE BigStrip(BigDivSmall(SubSeq(a, s \div 15 + 1, Len(a)),
                              2 ^ (s % 15), 0))

RECURSIVE BitLen(_)
BitLen(n) == IF n = 0 THEN 0 ELSE 1 + BitLen(n \div 2)

BigBitLen(a) ==
    IF a = <<>> THEN 0 ELSE 15 * (Len(a) - 1) + BitLen(a[Len(a)])

BigOdd(a) == a # <<>> /\ a[1] % 2 = 1

(* the value of a natural that fits a machine integer *)
RECURSIVE BigInt(_)
BigInt(a) == IF a = <<>> THEN 0 ELSE a[1] + Base * BigInt(Tail(a))

(* One digit of a long division: the largest g with d * g <= r, for
   r < d * Base and a divisor whose top limb is at least Base / 2.  The
   estimate from the top limbs is at most two too large. *)
BigDigit(r, d) ==
    LET n   == Len(d)
        hi  == IF Len(r) > n THEN r[n + 1] ELSE 0
        lo  == IF Len(r) >= n THEN r[n] ELSE 0
        est == IF (hi * Base + lo) \div d[n] < Base
               THEN (hi * Base + lo) \div d[n] ELSE Base - 1
    IN  IF BigCmp(BigStrip(BigMulSmall(d, est, 0)), r) <= 0 THEN est
        ELSE IF BigCmp(BigStrip(BigMulSmall(d, est - 1, 0)), r) <= 0
        THEN est - 1
        ELSE est - 2

(* One step of a long division: the quotient and remainder so far, hi,
   taken one limb of the dividend further *)
BigDivStep(hi, limb, d) ==
    IF hi.r = <<>> /\ limb = 0
    THEN [q |-> IF hi.q = <<>> THEN <<>> ELSE <<0>> \o hi.q, r |-> <<>>]
    ELSE LET r0 == <<limb>> \o hi.r
             g  == BigDigit(r0, d)
         IN  [q |-> BigStrip(<<g>> \o hi.q),
              r |-> BigSub(r0, BigStrip(BigMulSmall(d, g, 0)))]

(* quotient and remainder of n / d, one limb of n at a time from the top *)
RECURSIVE BigDivLimbs(_, _)
BigDivLimbs(n, d) ==
    IF Len(n) < Len(d) THEN [q |-> <<>>, r |-> n]
    ELSE BigDivStep(BigDivLimbs(Tail(n), d), n[1], d)

(* quotient and remainder of n / d for d > 0, both scaled first so that
   the divisor's top limb is at least Base / 2 *)
BigDivMod(n, d) ==
    LET sh == 15 - BitLen(d[Len(d)])
        dm == BigDivLimbs(BigShl(n, sh), BigShl(d, sh))
    IN  [q |-> dm.q, r |-> BigShr(dm.r, sh)]

(* A binary number (-1)^neg * m * 2^e with m a natural of any size *)
Dy(neg, m, e) == [neg |-> neg /\ m # <<>>, m |-> m, e |-> IF m = <<>> THEN 0 ELSE e]

DyInt(n) == Dy(n < 0, Big(IF n < 0 THEN -n ELSE n), 0)

DyNeg(a) == Dy(~a.neg, a.m, a.e)

(* exact sum *)
DyAdd(a, b) ==
    LET e0 == Min(a.e, b.e)
        ma == BigShl(a.m, a.e - e0)
        mb == BigShl(b.m, b.e - e0)
        c  == BigCmp(ma, mb)
    IN  IF a.m = <<>> THEN b
        ELSE IF b.m = <<>> THEN a
        ELSE IF a.neg = b.neg THEN Dy(a.neg, BigAdd(ma, mb), e0)
        ELSE IF c = 0 THEN Dy(FALSE, <<>>, 0)
        ELSE IF c > 0 THEN Dy(a.neg, BigSub(ma, mb), e0)
        ELSE Dy(b.neg, BigSub(mb, ma), e0)

DySub(a, b) == DyAdd(a, DyNeg(b))

DyMul(a, b) == Dy(a.neg # b.neg, BigMul(a.m, b.m), a.e + b.e)

(* -1, 0, 1 as a < b, a = b, a > b *)
DyCmp(a, b) ==
    LET d == DySub(a, b)
    IN  IF d.m = <<>> THEN 0 ELSE IF d.neg THEN -1 ELSE 1

(* The double nearest to an exact value, ties to the even mantissa; sticky
   says that the exact value lies above m * 2^e by less than 2^e *)
Round(a, sticky) ==
    LET s    == BigBitLen(a.m) - Precision
        q    == BigShr(a.m, s)
        c    == BigCmp(BigSub(a.m, BigShl(q, s)), BigShl(<<1>>, s - 1))
        up   == c > 0 \/ (c = 0 /\ (sticky \/ BigOdd(q)))
    IN  IF s <= 0 THEN a
        ELSE Dy(a.neg, IF up THEN BigAdd(q, <<1>>) ELSE q, a.e + s)

FloatAdd(a, b) ==
    IF a.m = <<>> THEN b
    ELSE IF b.m = <<>> THEN a
    ELSE Round(DyAdd(a, b), FALSE)

FloatSub(a, b) ==
    IF b.m = <<>> THEN a
    ELSE IF a.m = <<>> THEN DyNeg(b)
    ELSE Round(DySub(a, b), FALSE)

FloatMul(a, b) ==
    IF a.m = <<>> THEN a
    ELSE IF b.m = <<>> THEN b
    ELSE Round(DyMul(a, b), FALSE)

(* a / b for b # 0 *)
FloatDiv(a, b) ==
    LET k  == Max(0, BigBitLen(b.m) + Precision + 2 - BigBitLen(a.m))
        dm == BigDivMod(BigShl(a.m, k), b.m)
    IN  IF b.m = <<>> \/ a.m = <<>> THEN a
        ELSE Round(Dy(a.neg # b.neg, dm.q, a.e - k - b.e), dm.r # <<>>)

(* int(): the integer part, toward zero *)
FloatInt(a) ==
    LET n == IF a.e >= 0 THEN BigInt(BigShl(a.m, a.e))
             ELSE BigInt(BigShr(a.m, -a.e))
    IN  IF a.neg THEN -n ELSE n

(* the double a decimal literal num/den denotes *)
FloatOf(num, den) == FloatDiv(DyInt(num), DyInt(den))

(* the double a decimal literal of the source denotes *)
FloatLiteral(x) == FloatOf(x.num, x.den)

---------------------------------------------------------------------------
(* SignalDefinition *)

LittleEndian == 1
BigEndian == 0

SignalDefinition(name, start_bit, length, byte_order, value_type, factor, offset, min_val, max_val, unit) ==
    [name |-> name, start_bit |-> start_bit, length |-> length,
     byte_order |-> byte_order, value_type |-> value_type,
     factor |-> factor, offset |-> offset,
     min_val |-> min_val, max_val |-> max_val, unit |-> unit]

---------------------------------------------------------------------------
(* encode_signal *)

(* data_array[byte_pos] = value, value computed from data_array[byte_pos]:
   an index past the end raises IndexError, and a bytearray holds only
   0..255 *)
StoreByte(st, value) ==
    IF st.byte_pos >= Len(st.data_array)
    THEN [st EXCEPT !.error = "IndexError"]
    ELSE IF value \in 0..255
    THEN [st EXCEPT !.data_array[st.byte_pos + 1] = value]
    ELSE [st EXCEPT !.error = "ValueError"]

(* Variants of the loop body with one slip each *)

(* value_bits taken from the low bits of raw_value in every byte *)
EncodeLoopBodyNoShift(signal, raw_value, st) ==
    LET bits_in_this_byte == Min(8 - st.bit_pos, st.bits_remaining)
        mask == Shl(Shl(1, bits_in_this_byte) - 1, st.bit_pos)
        value_bits == BitAnd(raw_value, Shl(1, bits_in_this_byte) - 1)
        stored ==
            StoreByte(st, BitOr(BitAnd(st.data_array[st.byte_pos + 1],
                                       BitNot(mask)),
                                Shl(value_bits, st.bit_pos)))
    IN  IF stored.error # "none" THEN stored
        ELSE [stored EXCEPT !.bits_remaining = @ - bits_in_this_byte,
                            !.byte_pos = @ + 1,
                            !.bit_pos = 0]

(* the byte overwritten instead of read, masked and written back *)
EncodeLoopBodyOverwrite(signal, raw_value, st) ==
    LET bits_in_this_byte == Min(8 - st.bit_pos, st.bits_remaining)
        value_bits ==
            BitAnd(Shr(raw_value, signal.length - st.bits_remaining),
                   Shl(1, bits_in_this_byte) - 1)
        stored == StoreByte(st, Shl(value_bits, st.bit_pos))
    IN  IF stored.error # "none" THEN stored
        ELSE [stored EXCEPT !.bits_remaining = @ - bits_in_this_byte,
                            !.byte_pos = @ + 1,
                            !.bit_pos = 0]

(* the new bits or-ed in without clearing the old ones *)
EncodeLoopBodyNoClear(signal, raw_value, st) ==
    LET bits_in_this_byte == Min(8 - st.bit_pos, st.bits_remaining)
        value_bits ==
            BitAnd(Shr(raw_value, signal.length - st.bits_remaining),
                   Shl(1, bits_in_this_byte) - 1)
        stored ==
            StoreByte(st, BitOr(st.data_array[st.byte_pos + 1],
                                Shl(value_bits, st.bit_pos)))
    IN  IF stored.error # "none" THEN stored
        ELSE [stored EXCEPT !.bits_remaining = @ - bits_in_this_byte,
                            !.byte_pos = @ + 1,
                            !.bit_pos = 0]

(* value_bits not cut to the bits of this byte *)
EncodeLoopBodyUnmasked(signal, raw_value, st) ==
    LET bits_in_this_byte == Min(8 - st.bit_pos, st.bits_remaining)
        mask == Shl(Shl(1, bits_in_this_byte) - 1, st.bit_pos)
        value_bits == Shr(raw_value, signal.length - st.bits_remaining)
        stored ==
            StoreByte(st, BitOr(BitAnd(st.data_array[st.byte_pos + 1],
                                       BitNot(mask)),
                                Shl(value_bits, st.bit_pos)))
    IN  IF stored.error # "none" THEN stored
        ELSE [stored EXCEPT !.bits_remaining = @ - bits_in_this_byte,
                            !.byte_pos = @ + 1,
                            !.bit_pos = 0]

(* every byte written up to its top bit, whatever bits remain *)
EncodeLoopBodyWholeByte(signal, raw_value, st) ==
    LET bits_in_this_byte == 8 - st.bit_pos
        mask == Shl(Shl(1, bits_in_this_byte) - 1, st.bit_pos)
        value_bits ==
            BitAnd(Shr(raw_value, signal.length - st.bits_remaining),
                   Shl(1, bits_in_this_byte) - 1)
        stored ==
            StoreByte(st, BitOr(BitAnd(st.data_array[st.byte_pos + 1],
                                       BitNot(mask)),
                                Shl(value_bits, st.bit_pos)))
    IN  IF stored.error # "none" THEN stored
        ELSE [stored EXCEPT !.bits_remaining = @ - bits_in_this_byte,
                            !.byte_pos = @ + 1,
                            !.bit_pos = 0]

(* One iteration of the while loop, after its bounds test *)
(* a byte taken to hold the bits up to bit 6 *)
EncodeLoopBodyShortByte(signal, raw_value, st) ==
    LET bits_in_this_byte == Min(7 - st.bit_pos, st.bits_remaining)
        mask == Shl(Shl(1, bits_in_this_byte) - 1, st.bit_pos)
        value_bits ==
            BitAnd(Shr(raw_value, signal.length - st.bits_remaining),
                   Shl(1, bits_in_this_byte) - 1)
        stored ==
            StoreByte(st, BitOr(BitAnd(st.data_array[st.byte_pos + 1],
                                       BitNot(mask)),
                                Shl(value_bits, st.bit_pos)))
    IN  IF stored.error # "none" THEN stored
        ELSE [stored EXCEPT !.bits_remaining = @ - bits_in_this_byte,
                            !.byte_pos = @ + 1,
                            !.bit_pos = 0]

EncodeLoopBody(signal, raw_value, st) ==
    LET bits_in_this_byte == Min(8 - st.bit_pos, st.bits_remaining)
        mask == Shl(Shl(1, bits_in_this_byte) - 1, st.bit_pos)
        value_bits ==
            BitAnd(Shr(raw_value, signal.length - st.bits_remaining),
                   Shl(1, bits_in_this_byte) - 1)
        stored ==
            StoreByte(st, BitOr(BitAnd(st.data_array[st.byte_pos + 1],
                                       BitNot(mask)),
                                Shl(value_bits, st.bit_pos)))
    IN  IF stored.error # "none" THEN stored
        ELSE [stored EXCEPT !.bits_remaining = @ - bits_in_this_byte,
                            !.byte_pos = @ + 1,
                            !.bit_pos = 0]

(* the loop without its test of byte_pos against the array length *)
RECURSIVE EncodeLoopNoBreak(_, _, _)
EncodeLoopNoBreak(signal, raw_value, st) ==
    IF st.bits_remaining > 0 /\ st.error = "none"
    THEN EncodeLoopNoBreak(signal, raw_value,
                           EncodeLoopBody(signal, raw_value, st))
    ELSE st

RECURSIVE EncodeLoop(_, _, _)
EncodeLoop(signal, raw_value, st) ==
    IF st.bits_remaining > 0 /\ st.error = "none"
       /\ ~(st.byte_pos >= Len(st.data_array))
    THEN EncodeLoop(signal, raw_value, EncodeLoopBody(signal, raw_value, st))
    ELSE st

(* start_byte and start_bit with // and % exchanged *)
encode_bitsSwapped(signal, raw_value, data) ==
    LET start_byte == signal.start_bit % 8
        start_bit == signal.start_bit \div 8
        st0 == [byte_pos |-> start_byte, bits_remaining |-> signal.length,
                bit_pos |-> start_bit, data_array |-> data, error |-> "none"]
    IN  IF signal.byte_order = LittleEndian
        THEN EncodeLoop(signal, raw_value, st0)
        ELSE st0

(* the byte order not looked at: every signal written as LittleEndian *)
encode_bitsAnyOrder(signal, raw_value, data) ==
    LET start_byte == signal.start_bit \div 8
        start_bit == signal.start_bit % 8
        st0 == [byte_pos |-> start_byte, bits_remaining |-> signal.length,
                bit_pos |-> start_bit, data_array |-> data, error |-> "none"]
    IN  EncodeLoop(signal, raw_value, st0)

(* The bit distribution of encode_signal, from the raw value on *)
encode_bits(signal, raw_value, data) ==
    LET start_byte == signal.start_bit \div 8
        start_bit == signal.start_bit % 8
        st0 == [byte_pos |-> start_byte, bits_remaining |-> signal.length,
                bit_pos |-> start_bit, data_array |-> data, error |-> "none"]
    IN  IF signal.byte_order = LittleEndian
        THEN EncodeLoop(signal, raw_value, st0)
        ELSE st0

(* the value brought into [min_val, max_val] before the conversion *)
raw_ofClamped(signal, value) ==
    LET below == value.num * signal.min_val.den
                   < signal.min_val.num * value.den
        above == value.num * signal.max_val.den
                   > signal.max_val.num * value.den
        clamped == IF below THEN signal.min_val
                   ELSE IF above THEN signal.max_val ELSE value
    IN  IntTrunc(RatDiv(RatSub(clamped, signal.offset), signal.factor))

(* the sign of a negative raw value dropped *)
raw_ofMagnitude(signal, value) ==
    LET r == IntTrunc(RatDiv(RatSub(value, signal.offset), signal.factor))
    IN  IF r < 0 THEN -r ELSE r

(* raw_value = int((value - signal.offset) / signal.factor) *)
raw_of(signal, value) ==
    IntTrunc(RatDiv(RatSub(value, signal.offset), signal.factor))

(* raw_value = int((value - signal.offset) / signal.factor), in floats *)
raw_of_float(signal, value) ==
    FloatInt(FloatDiv(FloatSub(value, FloatLiteral(signal.offset)),
                      FloatLiteral(signal.factor)))

encode_signal(signal, value, data) ==
    IF signal.factor.num = 0
    THEN [data_array |-> data, raw_value |-> 0, error |-> "ZeroDivisionError"]
    ELSE LET raw_value == raw_of(signal, value)
             st == encode_bits(signal, raw_value, data)
         IN  [data_array |-> st.data_array, raw_value |-> raw_value,
              error |-> st.error]

---------------------------------------------------------------------------
(* decode_signal *)

(* Variants of the loop body with one slip each *)

(* the bits of every byte placed at the bottom of raw_value *)
DecodeLoopBodyNoShift(signal, st) ==
    LET bits_in_this_byte == Min(8 - st.bit_pos, st.bits_remaining)
        mask == Shl(Shl(1, bits_in_this_byte) - 1, st.bit_pos)
        value_bits ==
            Shr(BitAnd(st.data_array[st.byte_pos + 1], mask), st.bit_pos)
    IN  [st EXCEPT
           !.raw_value = BitOr(@, value_bits),
           !.bits_remaining = @ - bits_in_this_byte,
           !.byte_pos = @ + 1,
           !.bit_pos = 0]

(* the bits of a byte placed as if the signal began on a byte boundary *)
DecodeLoopBodyByteAligned(signal, st) ==
    LET bits_in_this_byte == Min(8 - st.bit_pos, st.bits_remaining)
        mask == Shl(Shl(1, bits_in_this_byte) - 1, st.bit_pos)
        value_bits ==
            Shr(BitAnd(st.data_array[st.byte_pos + 1], mask), st.bit_pos)
    IN  [st EXCEPT
           !.raw_value =
               BitOr(@, Shl(value_bits,
                            8 * (st.byte_pos - (signal.start_bit \div 8)))),
           !.bits_remaining = @ - bits_in_this_byte,
           !.byte_pos = @ + 1,
           !.bit_pos = 0]

(* One iteration of the while loop *)
DecodeLoopBody(signal, st) ==
    LET bits_in_this_byte == Min(8 - st.bit_pos, st.bits_remaining)
        mask == Shl(Shl(1, bits_in_this_byte) - 1, st.bit_pos)
        value_bits ==
            Shr(BitAnd(st.data_array[st.byte_pos + 1], mask), st.bit_pos)
    IN  [st EXCEPT
           !.raw_value =
               BitOr(@, Shl(value_bits, signal.length - st.bits_remaining)),
           !.bits_remaining = @ - bits_in_this_byte,
           !.byte_pos = @ + 1,
           !.bit_pos = 0]

RECURSIVE DecodeLoop(_, _)
DecodeLoop(signal, st) ==
    IF st.bits_remaining > 0 /\ st.byte_pos < Len(st.data_array)
    THEN DecodeLoop(signal, DecodeLoopBody(signal, st))
    ELSE st

(* the byte order not looked at: every signal read as LittleEndian *)
decode_bitsAnyOrder(signal, data) ==
    LET start_byte == signal.start_bit \div 8
        start_bit == signal.start_bit % 8
        st0 == [byte_pos |-> start_byte, bits_remaining |-> signal.length,
                bit_pos |-> start_bit, data_array |-> data, raw_value |-> 0]
    IN  DecodeLoop(signal, st0).raw_value

(* the raw value sign-extended when the signal is declared signed *)
decode_bitsSigned(signal, data) ==
    LET start_byte == signal.start_bit \div 8
        start_bit == signal.start_bit % 8
        st0 == [byte_pos |-> start_byte, bits_remaining |-> signal.length,
                bit_pos |-> start_bit, data_array |-> data, raw_value |-> 0]
        raw_value == IF signal.byte_order = LittleEndian
                     THEN DecodeLoop(signal, st0).raw_value
                     ELSE st0.raw_value
    IN  IF signal.value_type = "-" /\ raw_value >= 2 ^ (signal.length - 1)
        THEN raw_value - (2 ^ signal.length)
        ELSE raw_value

(* The bit extraction of decode_signal: the raw value *)
decode_bits(signal, data) ==
    LET start_byte == signal.start_bit \div 8
        start_bit == signal.start_bit % 8
        st0 == [byte_pos |-> start_byte, bits_remaining |-> signal.length,
                bit_pos |-> start_bit, data_array |-> data, raw_value |-> 0]
    IN  IF signal.byte_order = LittleEndian
        THEN DecodeLoop(signal, st0).raw_value
        ELSE st0.raw_value

(* the offset added before the scaling instead of after it *)
physical_ofOffsetFirst(signal, raw_value) ==
    RatMul(RatAdd(Rat(raw_value, 1), signal.offset), signal.factor)

(* physical_value = (raw_value * signal.factor) + signal.offset *)
physical_of(signal, raw_value) ==
    RatAdd(RatMul(Rat(raw_value, 1), signal.factor), signal.offset)

(* physical_value = (raw_value * signal.factor) + signal.offset, in floats *)
physical_of_float(signal, raw_value) ==
    FloatAdd(FloatMul(DyInt(raw_value), FloatLiteral(signal.factor)),
             FloatLiteral(signal.offset))

(* The data_array as decode_signal leaves it *)
decode_leaves(signal, data) ==
    LET st0 == [byte_pos |-> signal.start_bit \div 8,
                bits_remaining |-> signal.length,
                bit_pos |-> signal.start_bit % 8,
                data_array |-> data, raw_value |-> 0]
    IN  IF signal.byte_order = LittleEndian
        THEN DecodeLoop(signal, st0).data_array
        ELSE data

decode_signal(signal, data) ==
    LET raw_value == decode_bits(signal, data)
    IN  [raw_value |-> raw_value,
         physical_value |-> physical_of(signal, raw_value),
         data_array |-> decode_leaves(signal, data)]

---------------------------------------------------------------------------
(* MessageDefinition, create_message_definitions, create_message_data *)

(* An id is wider than the 32-bit integers of TLC: it is held as its two
   16-bit halves, id = hi * 65536 + lo *)
CanId(hi, lo) == [hi |-> hi, lo |-> lo]

MessageDefinition(id, name, length) ==
    [id |-> id, name |-> name, length |-> length, signals |-> <<>>]

Unit == Rat(1, 1)
Zero == Rat(0, 1)

(* the table with LateralAccelerationExRange moved one byte up, onto the
   low byte of LongitudinalAccelerationExRange *)
AccelerationSensorOverlapping ==
    LET acc(name, start_bit) ==
            SignalDefinition(name, start_bit, 16, 1, "+", Rat(1, 100),
                             Rat(-320, 1), Rat(-320, 1), Rat(32255, 100),
                             "m/s/s")
        fom(name, start_bit) ==
            SignalDefinition(name, start_bit, 2, 1, "+", Unit, Zero, Zero,
                             Rat(3, 1), "")
    IN  [MessageDefinition(CanId(35071, 35070), "AccelerationSensor", 7)
           EXCEPT !.signals =
             << fom("SpprtVrblTrnsRpttnRtFrAcclrtnSns", 54),
                fom("VrtclAcclrtnExRngeFigureOfMerit", 52),
                fom("LngtdnlAcclrtnExRngFgureOfMerit", 50),
                fom("LtrlAcclrtnExRangeFigureOfMerit", 48),
                acc("VerticalAccelerationExRange", 32),
                acc("LateralAccelerationExRange", 8),
                acc("LongitudinalAccelerationExRange", 16) >>]

(* The AccelerationSensor message, id 0x88FF88FE *)
AccelerationSensor ==
    LET acc(name, start_bit) ==
            SignalDefinition(name, start_bit, 16, 1, "+", Rat(1, 100),
                             Rat(-320, 1), Rat(-320, 1), Rat(32255, 100),
                             "m/s/s")
        fom(name, start_bit) ==
            SignalDefinition(name, start_bit, 2, 1, "+", Unit, Zero, Zero,
                             Rat(3, 1), "")
    IN  [MessageDefinition(CanId(35071, 35070), "AccelerationSensor", 7)
           EXCEPT !.signals =
             << fom("SpprtVrblTrnsRpttnRtFrAcclrtnSns", 54),
                fom("VrtclAcclrtnExRngeFigureOfMerit", 52),
                fom("LngtdnlAcclrtnExRngFgureOfMerit", 50),
                fom("LtrlAcclrtnExRangeFigureOfMerit", 48),
                acc("VerticalAccelerationExRange", 32),
                acc("LateralAccelerationExRange", 0),
                acc("LongitudinalAccelerationExRange", 16) >>]

create_message_definitions == << AccelerationSensor >>

(* data = bytearray(max(8, msg_def.length)) *)
NewBufferShort(msg_def) == [i \in 1..msg_def.length |-> 0]

(* one buffer kept between the calls instead of a new one for each *)
NewBufferReused(msg_def) ==
    IF Len(data_array) = Max(8, msg_def.length) THEN data_array
    ELSE [i \in 1..Max(8, msg_def.length) |-> 0]

NewBuffer(msg_def) == [i \in 1..Max(8, msg_def.length) |-> 0]

(* for signal in msg_def.signals: if signal.name in signal_values: ... *)
RECURSIVE EncodeEach(_, _, _)
EncodeEach(signals, signal_values, r) ==
    IF signals = <<>> \/ r.error # "none" THEN r
    ELSE LET signal == Head(signals)
             e == encode_signal(signal, signal_values[signal.name],
                                r.data_array)
         IN  EncodeEach(Tail(signals), signal_values,
                 IF signal.name \in DOMAIN signal_values
                 THEN [data_array |-> e.data_array, error |-> e.error]
                 ELSE r)

create_message_data(msg_def, signal_values) ==
    EncodeEach(msg_def.signals, signal_values,
               [data_array |-> NewBuffer(msg_def), error |-> "none"])

(* signal_values as the dict the caller built: its items <<name, value>>
   in the order of insertion, a name inserted again replacing its value *)
ItemsDict(items) ==
    [name \in { items[i][1] : i \in DOMAIN items }
       |-> items[CHOOSE i \in DOMAIN items :
                   /\ items[i][1] = name
                   /\ \A j \in DOMAIN items : items[j][1] = name => j <= i][2]]

(* the signals taken in the order the values were inserted *)
RECURSIVE EncodeOrderOfValues(_, _)
EncodeOrderOfValues(msg_def, items) ==
    IF items = <<>> THEN <<>>
    ELSE SelectSeq(msg_def.signals, LAMBDA s : s.name = Head(items)[1])
         \o EncodeOrderOfValues(msg_def, Tail(items))

(* for signal in msg_def.signals *)
EncodeOrder(msg_def, items) == msg_def.signals

(* create_message_data on a dict given by its items *)
create_message_data_items(msg_def, items) ==
    EncodeEach(EncodeOrder(msg_def, items), ItemsDict(items),
               [data_array |-> NewBuffer(msg_def), error |-> "none"])

---------------------------------------------------------------------------
(* decode_message *)

(* message_dict = {msg.id: msg for msg in messages} *)
MessageDict(messages) ==
    [id \in { messages[i].id : i \in DOMAIN messages } |->
        LET last == CHOOSE i \in DOMAIN messages :
                      /\ messages[i].id = id
                      /\ \A j \in DOMAIN messages :
                           messages[j].id = id => j <= i
        IN  messages[last]]

(* if (signal.start_bit + signal.length) <= (len(msg.data) * 8) *)
FitsStrict(signal, data) ==
    (signal.start_bit + signal.length) < (Len(data) * 8)
Fits(signal, data) ==
    (signal.start_bit + signal.length) <= (Len(data) * 8)

(* for signal in msg_def.signals: the lines printed, one for each signal
   decoded *)
RECURSIVE DecodeEach(_, _, _)
DecodeEach(signals, data, printed) ==
    IF signals = <<>> THEN printed
    ELSE LET signal == Head(signals)
             value == decode_signal(signal, data)
         IN  DecodeEach(Tail(signals), data,
                 IF Fits(signal, data)
                 THEN Append(printed,
                             [name |-> signal.name,
                              raw_value |-> value.raw_value,
                              value |-> value.physical_value,
                              unit |-> signal.unit])
                 ELSE printed)

decode_message(msg, message_dict) ==
    IF msg.arbitration_id \in DOMAIN message_dict
    THEN LET msg_def == message_dict[msg.arbitration_id]
         IN  [known |-> TRUE, name |-> msg_def.name,
              signals |-> DecodeEach(msg_def.signals, msg.data, <<>>)]
    ELSE [known |-> FALSE, name |-> "", signals |-> <<>>]

---------------------------------------------------------------------------
(* The inputs the callers draw *)

InitBuffers ==
    { <<0, 0, 0, 0, 0, 0, 0, 0>>,
      <<1, 35, 69, 103, 137, 171, 205, 239>>,
      <<254, 220, 186, 152, 118, 84, 50, 16>> }

Plain(name, start_bit, length, byte_order) ==
    SignalDefinition(name, start_bit, length, byte_order, "+", Unit, Zero,
                     Zero, Unit, "")

(* Every layout up to the bounds, in either byte order, and the signals of
   the AccelerationSensor table *)
Signals ==
    { Plain("S", s, l, b)
        : s \in 0..MaxStartBit, l \in 1..MaxLength,
          b \in {LittleEndian, BigEndian} }
    \cup { [AccelerationSensor.signals[i] EXCEPT !.byte_order = b]
             : i \in DOMAIN AccelerationSensor.signals,
               b \in {LittleEndian, BigEndian} }

(* The LittleEndian signals again, declared signed: value_type '-' *)
SignedSignals ==
    { [s EXCEPT !.value_type = "-"]
        : s \in { x \in Signals : x.byte_order = LittleEndian } }

(* The physical value whose quotient (value - offset) / factor is q *)
ValueOf(signal, q) == RatAdd(RatMul(q, signal.factor), signal.offset)

RawCandidates(l) == {0, (2 ^ l) - 1, 42405 % (2 ^ l), (2 ^ l) + 1, -3, 100}

Values(signal) ==
    { ValueOf(signal, q)
        : q \in { Rat(r, 1) : r \in RawCandidates(signal.length) }
                \cup { Rat(37, 10), Rat(-37, 10) } }

(* The signals and values of the calls that come in pairs *)
PairSignals(name) ==
    { Plain(name, s, l, LittleEndian)
        : s \in 0..MaxPairStartBit, l \in 1..MaxPairLength }

PairValues(signal) ==
    { ValueOf(signal, Rat(r, 1))
        : r \in {(2 ^ signal.length) - 1, 42405 % (2 ^ signal.length), -3} }

MsgValues(signal) ==
    { ValueOf(signal, Rat(r, 1)) : r \in {(2 ^ signal.length) - 1, -3} }

(* Message definitions of up to two signals, and the table's message *)
MessageDefinitions ==
    { [MessageDefinition(CanId(0, 256), "M", n) EXCEPT !.signals = ss]
        : n \in (MaxMsgLength - 2)..MaxMsgLength,
          ss \in {<<>>} \cup { <<a>> : a \in PairSignals("A") }
                 \cup { <<a, b>> : a \in PairSignals("A"),
                                   b \in PairSignals("B") } }
    \cup { AccelerationSensor }

(* The mappings name -> value a caller passes for a message *)
RECURSIVE ValueMaps(_)
ValueMaps(signals) ==
    IF signals = <<>> THEN { <<>> }
    ELSE LET signal == Head(signals)
             rest == ValueMaps(Tail(signals))
         IN  rest \cup
             { (signal.name :> v) @@ m
                 : v \in (IF Len(signals) <= 2 THEN MsgValues(signal)
                          ELSE {signal.max_val}),
                   m \in rest }

(* The data of the messages received: a pattern cut to every length a CAN
   frame has, and two full frames *)
DataBuffers ==
    { SubSeq(<<1, 35, 69, 103, 137, 171, 205, 239>>, 1, n) : n \in 0..8 }
    \cup { <<254, 220, 186, 152, 118, 84, 50, 16>>,
           <<0, 125, 0, 0, 0, 0, 0, 0>> }

(* The message definitions the receiver looks messages up in *)
DecodeDefinitions ==
    { [MessageDefinition(CanId(0, 256), "M", 8) EXCEPT !.signals = <<a, b>>]
        : a \in PairSignals("A"), b \in PairSignals("B") }
    \cup { AccelerationSensor }

(* The calls of a caller that encodes and decodes again and again: a
   message of two signals sharing a byte, and the table's message *)
TwoSignals ==
    [MessageDefinition(CanId(0, 256), "M", 8)
       EXCEPT !.signals = << Plain("A", 4, 6, LittleEndian),
                             Plain("B", 10, 9, LittleEndian) >>]

RepeatedEncodes ==
    { <<TwoSignals, m>>
        : m \in { x \in ValueMaps(TwoSignals.signals)
                    : DOMAIN x = {"A", "B"} } }
    \cup { <<AccelerationSensor, <<>> >>,
           <<AccelerationSensor,
             [name \in { AccelerationSensor.signals[i].name
                           : i \in DOMAIN AccelerationSensor.signals }
                |-> Rat(3, 1)]>> }

RepeatedDecodes ==
    { TwoSignals.signals[i] : i \in DOMAIN TwoSignals.signals }
    \cup { AccelerationSensor.signals[i] : i \in {1, 5} }

(* The calls of the two threads: the sender's create_message_data and the
   receiver's decode_signal, each on a buffer of its own *)
ThreadEncodes == RepeatedEncodes

ThreadDecodes ==
    { <<signal, data>> : signal \in RepeatedDecodes, data \in InitBuffers }

(* The calls followed one loop step at a time: a message of one signal for
   every layout, a signal of no bits included, and decode_signal on
   the data of the messages received *)
LoopSignals ==
    Signals \cup { Plain("S", s, 0, LittleEndian) : s \in 0..MaxStartBit }

LoopValues(signal) ==
    { ValueOf(signal, Rat(r, 1))
        : r \in {(2 ^ signal.length) - 1, (2 ^ signal.length) + 1, -3} }

LoopEncodes ==
    UNION { { << [MessageDefinition(CanId(0, 256), "M", 8)
                    EXCEPT !.signals = <<signal>>],
                 (signal.name :> value) >>
                : value \in LoopValues(signal) }
            : signal \in LoopSignals }

LoopDecodes ==
    { <<signal, data>> : signal \in LoopSignals, data \in DataBuffers }

(* The frame ids and payloads of the callers that build a can.Message:
   standard ids, the two ids next to 0x7FF, J1939 ids *)
FrameIds ==
    { CanId(0, 0), CanId(0, 291), CanId(0, 2047), CanId(0, 2048),
      CanId(6398, 61696), AccelerationSensor.id }

(* what dbc encode_message returns: bytes, or None for a failed encode *)
Payloads == InitBuffers \cup { <<>> }

(* Signals whose factor is a decimal that no double holds, 0.1 and 0.01,
   and the values a caller passes for them: the doubles of every half of a
   factor over the range of the raw value, 0.3 and 0.29 among them *)
FloatSignals ==
    { SignalDefinition("S", s, l, LittleEndian, "+", Rat(1, d),
                       Zero, Zero, Rat((2 ^ l) - 1, d), "")
        : s \in {0, 11}, l \in (MaxFloatLength - 1)..MaxFloatLength,
          d \in {10, 100} }

FloatValues(signal) ==
    { FloatOf(k, 2 * signal.factor.den)
        : k \in 0..((2 * (2 ^ signal.length)) - 1) }

(* Messages of two signals that share bits or do not, and dicts of up to
   three items, one of them under a name that is no signal of the message *)
OrderDefinitions ==
    { [MessageDefinition(CanId(0, 256), "M", 8) EXCEPT !.signals = ss]
        : ss \in { << Plain("A", 4, 6, LittleEndian),
                      Plain("B", 8, 6, LittleEndian) >>,
                   << Plain("B", 8, 6, LittleEndian),
                      Plain("A", 4, 6, LittleEndian) >>,
                   << Plain("A", 4, 6, LittleEndian),
                      Plain("B", 10, 9, LittleEndian) >>,
                   << Plain("A", 0, 8, LittleEndian),
                      Plain("B", 3, 2, LittleEndian) >> } }

ItemValues == { Rat(21, 1), Rat(42, 1), Rat(-3, 1) }

ItemSeqs ==
    UNION { { items \in [1..n -> {"A", "B", "X"} \X ItemValues]
                : \A i \in 1..n : \A j \in 1..n :
                     items[i][1] = items[j][1] => i = j }
            : n \in 0..3 }

---------------------------------------------------------------------------
(* The caller *)

(* sender_thread and receiver_thread of main *)
Threads == {1, 2}

(* CANInterface.__init__: the dict interfaces as its items in insertion
   order, the keys of the dict receive_threads *)
NewCANInterface(allow_virtual) ==
    [interfaces |-> <<>>, running |-> FALSE, receive_threads |-> {},
     allow_virtual |-> allow_virtual]

(* The frame of a thread that is in no call *)
IdleFrame ==
    [pc |-> "idle", op |-> "none", args |-> <<>>, idx |-> 0,
     st |-> [byte_pos |-> 0, bits_remaining |-> 0, bit_pos |-> 0,
             data_array |-> <<>>, raw_value |-> 0, error |-> "none"],
     ret |-> <<>>, overlapped |-> FALSE, iterations |-> 0]

Init ==
    /\ data_array \in InitBuffers
    /\ trace = <<>>
    /\ threads = [self \in Threads |-> IdleFrame]
    /\ can_interface = NewCANInterface(FALSE)
    /\ buses = <<>>
    /\ exit_event = FALSE

EncodeCall(signal, value) ==
    LET r == encode_signal(signal, value, data_array)
    IN  /\ data_array' = r.data_array
        /\ trace' = Append(trace,
              [op |-> "encode_signal", signal |-> signal,
               value |-> value, pre |-> data_array,
               post |-> r.data_array, raw_value |-> r.raw_value,
               error |-> r.error])

(* One encode_signal on the buffer as first found *)
EncodeSignalCall ==
    /\ trace = <<>>
    /\ UNCHANGED <<threads, can_interface, buses, exit_event>>
    /\ \E signal \in Signals :
         \E value \in Values(signal) : EncodeCall(signal, value)

(* decode_signal on the buffer as first found, or on the buffer the same
   signal was just encoded into *)
DecodeSignalCall ==
    /\ Len(trace) <= 1
    /\ trace # <<>> => trace[1].op = "encode_signal"
    /\ \E signal \in (IF trace = <<>> THEN Signals \cup SignedSignals
                      ELSE {trace[1].signal}) :
         /\ LET r == decode_signal(signal, data_array)
            IN  trace' = Append(trace,
                    [op |-> "decode_signal", signal |-> signal,
                     pre |-> data_array, raw_value |-> r.raw_value,
                     ret |-> r.physical_value])
    /\ UNCHANGED <<data_array, threads, can_interface, buses, exit_event>>

Next ==
    \/ EncodeSignalCall
    \/ DecodeSignalCall

Spec == Init /\ [][Next]_vars

(* Two encode_signal calls, one after the other, on the same buffer *)
EncodePairCall ==
    /\ Len(trace) < 2
    /\ UNCHANGED <<threads, can_interface, buses, exit_event>>
    /\ \E signal \in PairSignals("S") :
         \E value \in PairValues(signal) : EncodeCall(signal, value)

NextPair == EncodePairCall

SpecPair == Init /\ [][NextPair]_vars

(* data = create_message_data(msg_def, signal_values) *)
CreateMessageDataCall ==
    /\ trace = <<>>
    /\ UNCHANGED <<threads, can_interface, buses, exit_event>>
    /\ \E msg_def \in MessageDefinitions :
         \E signal_values \in ValueMaps(msg_def.signals) :
           LET r == create_message_data(msg_def, signal_values)
           IN  /\ data_array' = r.data_array
               /\ trace' = Append(trace,
                     [op |-> "create_message_data", msg_def |-> msg_def,
                      signal_values |-> signal_values,
                      ret |-> r.data_array, error |-> r.error])

NextMsg == CreateMessageDataCall

(* Before the call the caller holds no buffer *)
InitMsg ==
    /\ data_array = <<>>
    /\ trace = <<>>
    /\ threads = [self \in Threads |-> IdleFrame]
    /\ can_interface = NewCANInterface(FALSE)
    /\ buses = <<>>
    /\ exit_event = FALSE

SpecMsg == InitMsg /\ [][NextMsg]_vars

(* decode_message(message, message_dict) on a message received *)
DecodeMessageCall ==
    /\ trace = <<>>
    /\ UNCHANGED <<threads, can_interface, buses, exit_event>>
    /\ \E msg_def \in DecodeDefinitions :
         \E data \in DataBuffers :
           \E id \in {msg_def.id, CanId(0, 291)} :
             LET msg == [arbitration_id |-> id, data |-> data]
                 message_dict == MessageDict(<<msg_def>>)
             IN  /\ data_array' = data
                 /\ trace' = Append(trace,
                       [op |-> "decode_message", msg |-> msg,
                        message_dict |-> message_dict,
                        ret |-> decode_message(msg, message_dict)])

NextDecodeMsg == DecodeMessageCall

SpecDecodeMsg == InitMsg /\ [][NextDecodeMsg]_vars

(* A caller that makes up to MaxCalls calls, each either
   data = create_message_data(msg_def, signal_values) or
   decode_signal(signal, data) on the buffer it holds *)
RepeatedEncodeCall ==
    /\ Len(trace) < MaxCalls
    /\ UNCHANGED <<threads, can_interface, buses, exit_event>>
    /\ \E call \in RepeatedEncodes :
         LET r == create_message_data(call[1], call[2])
         IN  /\ data_array' = r.data_array
             /\ trace' = Append(trace,
                   [op |-> "create_message_data", msg_def |-> call[1],
                    signal_values |-> call[2],
                    ret |-> r.data_array, error |-> r.error])

RepeatedDecodeCall ==
    /\ Len(trace) < MaxCalls
    /\ UNCHANGED <<threads, can_interface, buses, exit_event>>
    /\ \E signal \in RepeatedDecodes :
         LET r == decode_signal(signal, data_array)
         IN  /\ data_array' = r.data_array
             /\ trace' = Append(trace,
                   [op |-> "decode_signal", signal |-> signal,
                    pre |-> data_array, post |-> r.data_array,
                    raw_value |-> r.raw_value, ret |-> r.physical_value])

NextRepeated ==
    \/ RepeatedEncodeCall
    \/ RepeatedDecodeCall

SpecRepeated == Init /\ [][NextRepeated]_vars

---------------------------------------------------------------------------
(* Two threads, each in one call, their steps interleaved.  A frame holds
   the locals of the call: args, the loop variables st with the buffer the
   call works on, the index idx of the signal create_message_data is at,
   and the value returned.  overlapped records that the thread ran a loop
   body while another thread was inside a call, iterations the number of
   loop bodies the call has run. *)

(* the loop variables a step works on: its own thread's *)
LoopState(self) == threads[self].st

(* raw_value kept in one place for all the threads *)
ThreadRawValueShared(self) == threads[1].st.raw_value

(* raw_value is a local of encode_signal *)
ThreadRawValue(self) == threads[self].st.raw_value

Overlaps(self) ==
    \E other \in Threads \ {self} :
       threads[other].pc \notin {"idle", "done"}

(* data = bytearray(max(8, msg_def.length)) *)
ThreadEncodeBegin(self) ==
    /\ threads[self].pc = "idle"
    /\ \E call \in ThreadEncodes :
         threads' = [threads EXCEPT ![self] =
            [@ EXCEPT !.pc = "for", !.op = "create_message_data",
                      !.args = call, !.idx = 1,
                      !.st.data_array = NewBuffer(call[1])]]
    /\ UNCHANGED <<data_array, trace, can_interface, buses, exit_event>>

(* for signal in msg_def.signals: if signal.name in signal_values, enter
   encode_signal up to its loop *)
ThreadForSignal(self) ==
    LET f == threads[self]
        signals == f.args[1].signals
        signal_values == f.args[2]
        signal == signals[f.idx]
    IN  /\ f.pc = "for"
        /\ threads' = [threads EXCEPT ![self] =
             IF f.idx > Len(signals) THEN [f EXCEPT !.pc = "return"]
             ELSE IF signal.name \notin DOMAIN signal_values
             THEN [f EXCEPT !.idx = @ + 1]
             ELSE IF signal.factor.num = 0
             THEN [f EXCEPT !.pc = "done",
                            !.st.error = "ZeroDivisionError"]
             ELSE IF signal.byte_order # LittleEndian
             THEN [f EXCEPT !.idx = @ + 1]
             ELSE [f EXCEPT
                     !.pc = "loop",
                     !.st = [byte_pos |-> signal.start_bit \div 8,
                             bits_remaining |-> signal.length,
                             bit_pos |-> signal.start_bit % 8,
                             data_array |-> f.st.data_array,
                             raw_value |->
                                 raw_of(signal, signal_values[signal.name]),
                             error |-> "none"]]]
        /\ UNCHANGED <<data_array, trace, can_interface, buses, exit_event>>

(* One test of encode_signal's while loop and, if it passes, one body *)
ThreadEncodeStep(self) ==
    LET f == threads[self]
        signal == f.args[1].signals[f.idx]
        st == LoopState(self)
        body == EncodeLoopBody(signal, ThreadRawValue(self), st)
    IN  /\ f.pc = "loop"
        /\ f.op = "create_message_data"
        /\ threads' = [threads EXCEPT ![self] =
             IF st.bits_remaining > 0 /\ ~(st.byte_pos >= Len(st.data_array))
             THEN [f EXCEPT !.st = body,
                            !.pc = IF body.error # "none" THEN "done"
                                   ELSE "loop",
                            !.overlapped = @ \/ Overlaps(self),
                            !.iterations = @ + 1]
             ELSE [f EXCEPT !.pc = "for", !.idx = @ + 1]]
        /\ UNCHANGED <<data_array, trace, can_interface, buses, exit_event>>

(* decode_signal(signal, data_array) up to its loop *)
ThreadDecodeBegin(self) ==
    /\ threads[self].pc = "idle"
    /\ \E call \in ThreadDecodes :
         LET signal == call[1]
         IN  threads' = [threads EXCEPT ![self] =
                [@ EXCEPT
                   !.pc = IF signal.byte_order = LittleEndian THEN "loop"
                          ELSE "return",
                   !.op = "decode_signal", !.args = call,
                   !.st = [byte_pos |-> signal.start_bit \div 8,
                           bits_remaining |-> signal.length,
                           bit_pos |-> signal.start_bit % 8,
                           data_array |-> call[2], raw_value |-> 0,
                           error |-> "none"]]]
    /\ UNCHANGED <<data_array, trace, can_interface, buses, exit_event>>

(* One test of decode_signal's while loop and, if it passes, one body *)
ThreadDecodeStep(self) ==
    LET f == threads[self]
        signal == f.args[1]
        st == LoopState(self)
    IN  /\ f.pc = "loop"
        /\ f.op = "decode_signal"
        /\ threads' = [threads EXCEPT ![self] =
             IF st.bits_remaining > 0 /\ st.byte_pos < Len(st.data_array)
             THEN [f EXCEPT !.st = DecodeLoopBody(signal, st),
                            !.overlapped = @ \/ Overlaps(self),
                            !.iterations = @ + 1]
             ELSE [f EXCEPT !.pc = "return"]]
        /\ UNCHANGED <<data_array, trace, can_interface, buses, exit_event>>

(* return data; return physical_value *)
ThreadReturn(self) ==
    LET f == threads[self]
    IN  /\ f.pc = "return"
        /\ threads' = [threads EXCEPT ![self] =
             [f EXCEPT !.pc = "done",
                       !.ret = IF f.op = "create_message_data"
                               THEN f.st.data_array
                               ELSE physical_of(f.args[1], f.st.raw_value)]]
        /\ UNCHANGED <<data_array, trace, can_interface, buses, exit_event>>

NextThreads ==
    \/ \E self \in Threads : ThreadEncodeBegin(self)
    \/ \E self \in Threads : ThreadForSignal(self)
    \/ \E self \in Threads : ThreadEncodeStep(self)
    \/ \E self \in Threads : ThreadDecodeBegin(self)
    \/ \E self \in Threads : ThreadDecodeStep(self)
    \/ \E self \in Threads : ThreadReturn(self)

SpecThreads == InitMsg /\ [][NextThreads]_vars

(* One call followed one loop step at a time *)
LoopEncodeBegin ==
    /\ threads[1].pc = "idle"
    /\ \E call \in LoopEncodes :
         threads' = [threads EXCEPT ![1] =
            [@ EXCEPT !.pc = "for", !.op = "create_message_data",
                      !.args = call, !.idx = 1,
                      !.st.data_array = NewBuffer(call[1])]]
    /\ UNCHANGED <<data_array, trace, can_interface, buses, exit_event>>

LoopDecodeBegin ==
    /\ threads[1].pc = "idle"
    /\ \E call \in LoopDecodes :
         LET signal == call[1]
         IN  threads' = [threads EXCEPT ![1] =
                [@ EXCEPT
                   !.pc = IF signal.byte_order = LittleEndian THEN "loop"
                          ELSE "return",
                   !.op = "decode_signal", !.args = call,
                   !.st = [byte_pos |-> signal.start_bit \div 8,
                           bits_remaining |-> signal.length,
                           bit_pos |-> signal.start_bit % 8,
                           data_array |-> call[2], raw_value |-> 0,
                           error |-> "none"]]]
    /\ UNCHANGED <<data_array, trace, can_interface, buses, exit_event>>

NextLoop ==
    \/ LoopEncodeBegin
    \/ LoopDecodeBegin
    \/ ThreadForSignal(1)
    \/ ThreadEncodeStep(1)
    \/ ThreadDecodeStep(1)
    \/ ThreadReturn(1)

SpecLoop == InitMsg /\ [][NextLoop]_vars

---------------------------------------------------------------------------
(* The callers that wrap a payload in a can.Message *)
StandardIdMax == 2047

(* msg_id > 0x7FF *)
ExceedsStandard(id) == id.hi > 0 \/ id.lo > StandardIdMax

Message(caller, arbitration_id, data, is_extended_id) ==
    [op |-> "can.Message", caller |-> caller,
     arbitration_id |-> arbitration_id, data |-> data,
     is_extended_id |-> is_extended_id]

(* sender of pcan_decode.py: is_extended_id=True *)
SenderMessage ==
    /\ Len(trace) < 2
    /\ \E msg_def \in { create_message_definitions[i]
                          : i \in DOMAIN create_message_definitions } :
         \E signal_values \in ValueMaps(msg_def.signals) :
           LET r == create_message_data(msg_def, signal_values)
           IN  /\ DOMAIN signal_values
                    = { msg_def.signals[i].name : i \in DOMAIN msg_def.signals }
               /\ r.error = "none"
               /\ data_array' = r.data_array
               /\ trace' = Append(trace,
                     Message("sender", msg_def.id, r.data_array, TRUE))
    /\ UNCHANGED <<threads, can_interface, buses, exit_event>>

(* DualCANSimulator._send_simulated_message:
   is_extended_id=(msg_id > 0x7FF) *)
SimulatorMessage ==
    /\ Len(trace) < 2
    /\ \E msg_id \in FrameIds : \E data \in Payloads :
         /\ data_array' = data
         /\ trace' = Append(trace,
               Message("can_simulator", msg_id, data,
                       ExceedsStandard(msg_id)))
    /\ UNCHANGED <<threads, can_interface, buses, exit_event>>

(* MessageProcessor.create_and_send_message: if data, is_extended_id=True *)
ProcessorMessage ==
    /\ Len(trace) < 2
    /\ \E frame_id \in FrameIds : \E data \in Payloads :
         /\ data # <<>>
         /\ data_array' = data
         /\ trace' = Append(trace,
               Message("message_processor", frame_id, data, TRUE))
    /\ UNCHANGED <<threads, can_interface, buses, exit_event>>

NextWrap ==
    \/ SenderMessage
    \/ SimulatorMessage
    \/ ProcessorMessage

SpecWrap == InitMsg /\ [][NextWrap]_vars

---------------------------------------------------------------------------
(* encode_signal, then decode_signal of the same signal, the physical
   values computed in floats *)
FloatEncodeCall ==
    /\ trace = <<>>
    /\ \E signal \in FloatSignals : \E value \in FloatValues(signal) :
         LET raw_value == raw_of_float(signal, value)
             st == encode_bits(signal, raw_value, data_array)
         IN  /\ data_array' = st.data_array
             /\ trace' = Append(trace,
                   [op |-> "encode_signal", signal |-> signal,
                    value |-> value, pre |-> data_array,
                    post |-> st.data_array, raw_value |-> raw_value,
                    error |-> st.error])
    /\ UNCHANGED <<threads, can_interface, buses, exit_event>>

FloatDecodeCall ==
    /\ Len(trace) = 1
    /\ LET signal == trace[1].signal
           raw_value == decode_bits(signal, data_array)
       IN  trace' = Append(trace,
               [op |-> "decode_signal", signal |-> signal,
                pre |-> data_array, raw_value |-> raw_value,
                ret |-> physical_of_float(signal, raw_value)])
    /\ UNCHANGED <<data_array, threads, can_interface, buses, exit_event>>

NextFloat ==
    \/ FloatEncodeCall
    \/ FloatDecodeCall

SpecFloat == Init /\ [][NextFloat]_vars

---------------------------------------------------------------------------
(* create_message_data on a dict built by the caller item by item *)
MessageItemsCall ==
    /\ trace = <<>>
    /\ \E msg_def \in OrderDefinitions : \E items \in ItemSeqs :
         LET r == create_message_data_items(msg_def, items)
         IN  /\ data_array' = r.data_array
             /\ trace' = Append(trace,
                   [op |-> "create_message_data", msg_def |-> msg_def,
                    signal_values |-> ItemsDict(items), items |-> items,
                    ret |-> r.data_array, error |-> r.error])
    /\ UNCHANGED <<threads, can_interface, buses, exit_event>>

NextItems == MessageItemsCall

SpecItems == InitMsg /\ [][NextItems]_vars

---------------------------------------------------------------------------
(* The sender's frame of the AccelerationSensor table and its decode, the
   values computed in doubles *)

(* random.random(): a multiple of 2^-53 in [0, 1), here the one at or just
   below p / q, moved up by j *)
random(p, q, j) ==
    Dy(FALSE,
       BigAdd(BigDivMod(BigShl(Big(p), Precision), Big(q)).q, Big(j)),
       -Precision)

(* random.uniform(a, b): a + (b - a) * random() *)
uniform(a, b, r) == FloatAdd(a, FloatMul(FloatSub(b, a), r))

(* The number of factors between min_val and max_val *)
Steps(signal) ==
    IntTrunc(RatDiv(RatSub(signal.max_val, signal.min_val), signal.factor))

(* Raw values whose physical values the draws surround: both ends of the
   range and points between *)
Grid == << 0, 1, 19207, 19208, 32000, 45678, 64000, 64254 >>

(* The value drawn for the signal at position k of the table in frame
   (i, j): the draws at or just below a grid point and just above it *)
Draw(signal, k, i, j) ==
    uniform(FloatLiteral(signal.min_val), FloatLiteral(signal.max_val),
            random(Grid[((i + k) % Len(Grid)) + 1] % Steps(signal),
                   Steps(signal), j))

(* sender: a value drawn for each signal of the table *)
SenderDraw ==
    /\ trace = <<>>
    /\ \E i \in 0..(Len(Grid) - 1), j \in 0..(Len(Grid) - 1) :
         LET msg_def == AccelerationSensor
         IN  trace' = Append(trace,
                 [op |-> "uniform", msg_def |-> msg_def,
                  signal_values |->
                    [name \in { msg_def.signals[k].name
                                  : k \in DOMAIN msg_def.signals } |->
                       LET k == CHOOSE n \in DOMAIN msg_def.signals :
                                  msg_def.signals[n].name = name
                       IN  Draw(msg_def.signals[k], k, i, j)]])
    /\ UNCHANGED <<data_array, threads, can_interface, buses, exit_event>>

(* sender: create_message_data on the values drawn, one signal of the loop
   at a time, the buffer made before the first *)
SenderEncode ==
    /\ trace # <<>>
    /\ trace[1].op = "uniform"
    /\ Len(trace) <= Len(trace[1].msg_def.signals)
    /\ trace[Len(trace)].op \in {"uniform", "encode_signal"}
    /\ LET msg_def == trace[1].msg_def
           signal == msg_def.signals[Len(trace)]
           value == trace[1].signal_values[signal.name]
           pre == IF Len(trace) = 1 THEN NewBuffer(msg_def) ELSE data_array
           raw_value == raw_of_float(signal, value)
           st == encode_bits(signal, raw_value, pre)
       IN  /\ data_array' = st.data_array
           /\ trace' = Append(trace,
                 [op |-> "encode_signal", signal |-> signal,
                  value |-> value, pre |-> pre, post |-> st.data_array,
                  raw_value |-> raw_value, error |-> st.error])
    /\ UNCHANGED <<threads, can_interface, buses, exit_event>>

(* receiver: decode_message of the frame, one signal of the loop at a
   time, each physical value computed in doubles *)
ReceiverDecode ==
    /\ trace # <<>>
    /\ trace[1].op = "uniform"
    /\ Len(trace) > Len(trace[1].msg_def.signals)
    /\ Len(trace) <= 2 * Len(trace[1].msg_def.signals)
    /\ LET msg_def == trace[1].msg_def
           signal == msg_def.signals[Len(trace) - Len(msg_def.signals)]
           raw_value == decode_bits(signal, data_array)
       IN  trace' = Append(trace,
               IF Fits(signal, data_array)
               THEN [op |-> "decode_signal", signal |-> signal,
                     pre |-> data_array, raw_value |-> raw_value,
                     ret |-> physical_of_float(signal, raw_value)]
               ELSE [op |-> "skipped", signal |-> signal])
    /\ UNCHANGED <<data_array, threads, can_interface, buses, exit_event>>

NextTable ==
    \/ SenderDraw
    \/ SenderEncode
    \/ ReceiverDecode

SpecTable == InitMsg /\ [][NextTable]_vars

---------------------------------------------------------------------------
(* Properties of the codec *)

(* Bit k of a buffer: bit k mod 8 of byte k div 8, bit 0 the lowest *)
BufferBit(buffer, k) == (buffer[(k \div 8) + 1] \div (2 ^ (k % 8))) % 2

(* Bit i of an integer in two's complement *)
IntBit(r, i) == (r \div (2 ^ i)) % 2

InBounds(signal, buffer) ==
    /\ signal.start_bit >= 0
    /\ signal.start_bit + signal.length <= 8 * Len(buffer)

InSpan(signal, k) ==
    signal.start_bit <= k /\ k < signal.start_bit + signal.length

EncodeCalls == { n \in DOMAIN trace : trace[n].op = "encode_signal" }
DecodeCalls == { n \in DOMAIN trace : trace[n].op = "decode_signal" }

(* An encode_signal call of a LittleEndian signal that fits the buffer *)
FittingEncodes ==
    { n \in EncodeCalls :
        /\ trace[n].signal.byte_order = LittleEndian
        /\ InBounds(trace[n].signal, trace[n].pre) }

CrossesByte(signal) == (signal.start_bit % 8) + signal.length > 8

\* C1: after encode_signal writes raw value r for a LittleEndian signal that
\* fits the buffer, buffer bit start_bit + i equals bit i of r, for every
\* i in [0, length).
C1_EncodeBitLayout ==
    \A n \in FittingEncodes :
      LET c == trace[n]
      IN  \A i \in 0..(c.signal.length - 1) :
            BufferBit(c.post, c.signal.start_bit + i) = IntBit(c.raw_value, i)

C1_Witness ==
    \E n \in FittingEncodes :
      LET c == trace[n]
      IN  /\ CrossesByte(c.signal)
          /\ c.signal.start_bit % 8 # 0
          /\ c.raw_value = 42405 % (2 ^ c.signal.length)
          /\ c.signal.length = MaxLength
          /\ c.post # c.pre

RECURSIVE SumBits(_, _, _)
SumBits(buffer, start_bit, length) ==
    IF length <= 0 THEN 0
    ELSE SumBits(buffer, start_bit, length - 1)
         + BufferBit(buffer, start_bit + length - 1) * (2 ^ (length - 1))

\* C2: for a LittleEndian signal that fits the data, the raw value that
\* decode_signal reconstructs is the sum over i in [0, length) of buffer
\* bit start_bit + i times 2^i, also across byte boundaries.
C2_DecodeBitExtraction ==
    \A n \in DecodeCalls :
      LET c == trace[n]
      IN  (c.signal.byte_order = LittleEndian /\ InBounds(c.signal, c.pre))
          => c.raw_value =
                 SumBits(c.pre, c.signal.start_bit, c.signal.length)

C2_Witness ==
    \E n \in DecodeCalls :
      LET c == trace[n]
      IN  /\ c.signal.byte_order = LittleEndian
          /\ InBounds(c.signal, c.pre)
          /\ (c.signal.start_bit % 8) + c.signal.length > 16
          /\ c.raw_value > 2 ^ (c.signal.length - 1)
          /\ c.raw_value # (2 ^ c.signal.length) - 1

\* C3: encoding a raw value r in [0, 2^length) for a LittleEndian signal
\* that fits the 8-byte buffer, whatever the buffer held, and then decoding
\* the same signal returns exactly r.
C3_RoundTrip ==
    (/\ Len(trace) = 2
     /\ 1 \in FittingEncodes
     /\ 2 \in DecodeCalls
     /\ trace[2].signal = trace[1].signal
     /\ trace[1].raw_value \in 0..((2 ^ trace[1].signal.length) - 1))
    => /\ trace[2].raw_value = trace[1].raw_value
       /\ trace[2].ret = physical_of(trace[1].signal, trace[1].raw_value)

C3_Witness ==
    /\ Len(trace) = 2
    /\ 1 \in FittingEncodes
    /\ 2 \in DecodeCalls
    /\ trace[2].signal = trace[1].signal
    /\ CrossesByte(trace[1].signal)
    /\ trace[1].raw_value = 42405 % (2 ^ trace[1].signal.length)
    /\ trace[1].raw_value > 1
    /\ trace[1].pre # <<0, 0, 0, 0, 0, 0, 0, 0>>
    /\ trace[2].raw_value = trace[1].raw_value

\* C4: encoding one LittleEndian signal that fits the buffer leaves every
\* buffer bit outside [start_bit, start_bit + length) as it was, also in
\* the first and last bytes that the span covers only in part.
C4_EncodeFrame ==
    \A n \in FittingEncodes :
      LET c == trace[n]
      IN  /\ Len(c.post) = Len(c.pre)
          /\ \A k \in 0..(8 * Len(c.pre) - 1) :
               ~InSpan(c.signal, k)
               => BufferBit(c.post, k) = BufferBit(c.pre, k)

C4_Witness ==
    \E n \in FittingEncodes :
      LET c == trace[n]
          first == c.signal.start_bit
          last == c.signal.start_bit + c.signal.length - 1
      IN  /\ first % 8 # 0
          /\ last % 8 # 7
          /\ first \div 8 # last \div 8
          /\ BufferBit(c.pre, first - 1) = 1
          /\ BufferBit(c.pre, last + 1) = 1
          /\ c.raw_value = 0
          /\ c.post # c.pre

Disjoint(a, b) ==
    \/ a.start_bit + a.length <= b.start_bit
    \/ b.start_bit + b.length <= a.start_bit

SharesByte(a, b) ==
    \E k \in 0..((8 * 8) - 1), m \in 0..((8 * 8) - 1) :
      InSpan(a, k) /\ InSpan(b, m) /\ k \div 8 = m \div 8

(* Two encode_signal calls of LittleEndian signals that fit the buffer *)
FittingPair == Len(trace) = 2 /\ FittingEncodes = {1, 2}

\* C5: for two LittleEndian signals with disjoint bit spans that fit the
\* buffer, encoding A then B yields the same buffer as encoding B then A,
\* for any values and any prior buffer, also when they share a byte.
C5_NonInterference ==
    (FittingPair /\ Disjoint(trace[1].signal, trace[2].signal))
    => LET a == trace[1]
           b == trace[2]
           b_first == encode_signal(b.signal, b.value, a.pre)
           then_a == encode_signal(a.signal, a.value, b_first.data_array)
       IN  data_array = then_a.data_array

C5_Witness ==
    /\ FittingPair
    /\ Disjoint(trace[1].signal, trace[2].signal)
    /\ SharesByte(trace[1].signal, trace[2].signal)
    /\ CrossesByte(trace[2].signal)
    /\ trace[1].post # trace[1].pre
    /\ trace[2].post # trace[2].pre
    /\ trace[1].raw_value > 0
    /\ trace[2].raw_value > 0

\* C6: when two LittleEndian signals with overlapping bit spans are encoded
\* one after the other, every bit in the span of the signal encoded last
\* holds that signal's bit, bits of the earlier signal survive only outside
\* the later signal's span, and no error reports the overlap.
C6_OverlapPrecedence ==
    (FittingPair /\ ~Disjoint(trace[1].signal, trace[2].signal))
    => LET a == trace[1]
           b == trace[2]
       IN  /\ a.error = "none" /\ b.error = "none"
           /\ \A k \in 0..(8 * Len(data_array) - 1) :
                /\ InSpan(b.signal, k)
                   => BufferBit(data_array, k)
                        = IntBit(b.raw_value, k - b.signal.start_bit)
                /\ (InSpan(a.signal, k) /\ ~InSpan(b.signal, k))
                   => BufferBit(data_array, k)
                        = IntBit(a.raw_value, k - a.signal.start_bit)

C6_Witness ==
    /\ FittingPair
    /\ ~Disjoint(trace[1].signal, trace[2].signal)
    /\ \E k \in 0..(8 * Len(data_array) - 1) :
         /\ InSpan(trace[1].signal, k) /\ InSpan(trace[2].signal, k)
         /\ IntBit(trace[1].raw_value, k - trace[1].signal.start_bit) = 1
         /\ IntBit(trace[2].raw_value, k - trace[2].signal.start_bit) = 0
         /\ BufferBit(data_array, k) = 0
    /\ \E k \in 0..(8 * Len(data_array) - 1) :
         /\ InSpan(trace[1].signal, k) /\ ~InSpan(trace[2].signal, k)
         /\ BufferBit(data_array, k) = 1
         /\ BufferBit(trace[1].pre, k) = 0

(* The quotient (value - offset) / factor of an encode_signal call *)
Quotient(c) == RatDiv(RatSub(c.value, c.signal.offset), c.signal.factor)

RatEq(a, b) == a.num * b.den = b.num * a.den

IsPlain(signal) == RatEq(signal.factor, Unit) /\ RatEq(signal.offset, Zero)

C8_WidthTruncation ==
    \A n \in FittingEncodes :
      LET c == trace[n]
          cut == encode_bits(c.signal,
                             c.raw_value % (2 ^ c.signal.length), c.pre)
      IN  /\ c.error = "none"
          /\ cut.error = "none"
          /\ c.post = cut.data_array

C8_Witness ==
    \E n \in FittingEncodes :
      LET c == trace[n]
      IN  /\ c.raw_value = (2 ^ c.signal.length) + 1
          /\ c.signal.length % 8 # 0
          /\ CrossesByte(c.signal)
          /\ c.error = "none"
          /\ BufferBit(c.pre, c.signal.start_bit + c.signal.length) = 0
          /\ BufferBit(c.post, c.signal.start_bit + c.signal.length) = 0
          /\ c.post # c.pre

MessageCalls == { n \in DOMAIN trace : trace[n].op = "create_message_data" }

(* The signals of the message that have an entry in the values *)
Present(c) ==
    { i \in DOMAIN c.msg_def.signals :
        c.msg_def.signals[i].name \in DOMAIN c.signal_values }

\* C9: create_message_data returns a buffer of exactly
\* max(8, msg_def.length) bytes, and when no signal has an entry in the
\* values every byte of it is zero.
C9_BufferLength ==
    \A n \in MessageCalls :
      LET c == trace[n]
      IN  /\ c.msg_def.length <= 8 => Len(c.ret) = 8
          /\ c.msg_def.length >= 8 => Len(c.ret) = c.msg_def.length
          /\ Present(c) = {} => \A i \in DOMAIN c.ret : c.ret[i] = 0

C9_Witness ==
    \E n \in MessageCalls :
      LET c == trace[n]
      IN  /\ c.msg_def.length > 8
          /\ Len(c.ret) = c.msg_def.length
          /\ Len(c.msg_def.signals) = 2
          /\ Present(c) = {}
          /\ \A i \in DOMAIN c.ret : c.ret[i] = 0

\* C10: in the buffer create_message_data returns, every bit that is not
\* inside the span of a signal present in the values is zero; the span of
\* an absent signal is all zero unless a present signal overlaps it.
C10_AbsentZero ==
    \A n \in MessageCalls :
      LET c == trace[n]
      IN  \A k \in 0..(8 * Len(c.ret) - 1) :
            (\A i \in Present(c) : ~InSpan(c.msg_def.signals[i], k))
            => BufferBit(c.ret, k) = 0

C10_Witness ==
    \E n \in MessageCalls :
      LET c == trace[n]
          ss == c.msg_def.signals
      IN  /\ Len(ss) = 2
          /\ Present(c) = {1}
          /\ SharesByte(ss[1], ss[2])
          /\ ~Disjoint(ss[1], ss[2])
          /\ ss[2].start_bit + ss[2].length > ss[1].start_bit + ss[1].length
          /\ \E k \in 0..(8 * Len(c.ret) - 1) :
               InSpan(ss[1], k) /\ InSpan(ss[2], k) /\ BufferBit(c.ret, k) = 1
          /\ \A k \in 0..(8 * Len(c.ret) - 1) :
               (InSpan(ss[2], k) /\ ~InSpan(ss[1], k))
               => BufferBit(c.ret, k) = 0

DecodeMessageCalls == { n \in DOMAIN trace : trace[n].op = "decode_message" }

(* The names on the lines a decode_message call printed *)
PrintedNames(c) == { c.ret.signals[i].name : i \in DOMAIN c.ret.signals }

(* A decode_message call of a message whose id is in the dictionary *)
KnownMessageCalls ==
    { n \in DecodeMessageCalls :
        trace[n].msg.arbitration_id \in DOMAIN trace[n].message_dict }

\* C11: when a message is decoded, a signal is decoded if and only if
\* start_bit + length <= 8 * len(data); a signal whose span exceeds the
\* data is absent from the result, and the other signals of the message
\* are still decoded, each from its own bits.
C11_BoundsSkipping ==
    \A n \in KnownMessageCalls :
      LET c == trace[n]
          ss == c.message_dict[c.msg.arbitration_id].signals
      IN  /\ c.ret.known
          /\ \A i \in DOMAIN ss :
               ss[i].name \in PrintedNames(c)
               <=> ss[i].start_bit + ss[i].length <= 8 * Len(c.msg.data)
          /\ \A i \in DOMAIN ss :
               (ss[i].start_bit + ss[i].length <= 8 * Len(c.msg.data))
               => \E k \in DOMAIN c.ret.signals :
                    /\ c.ret.signals[k].name = ss[i].name
                    /\ c.ret.signals[k].raw_value
                         = SumBits(c.msg.data, ss[i].start_bit, ss[i].length)

C11_Witness ==
    \E n \in KnownMessageCalls :
      LET c == trace[n]
          ss == c.message_dict[c.msg.arbitration_id].signals
      IN  /\ Len(ss) = 2
          /\ ss[1].start_bit + ss[1].length > 8 * Len(c.msg.data)
          /\ ss[1].start_bit < 8 * Len(c.msg.data)
          /\ ss[2].start_bit + ss[2].length = 8 * Len(c.msg.data)
          /\ PrintedNames(c) = {ss[2].name}
          /\ c.ret.signals[1].raw_value
               = SumBits(c.msg.data, ss[2].start_bit, ss[2].length)

\* C12: for a signal whose value_type is Signed, when the most significant
\* of the length extracted bits is set, decode uses raw_value - 2^length
\* before applying factor and offset; when that bit is clear the raw value
\* is used as it is.
C12_SignedDecode ==
    \A n \in DecodeCalls :
      LET c == trace[n]
          bits == SumBits(c.pre, c.signal.start_bit, c.signal.length)
          extended == IF bits >= 2 ^ (c.signal.length - 1)
                      THEN bits - (2 ^ c.signal.length)
                      ELSE bits
      IN  (/\ c.signal.value_type = "-"
           /\ c.signal.byte_order = LittleEndian
           /\ InBounds(c.signal, c.pre))
          => RatEq(c.ret,
                   RatAdd(RatMul(Rat(extended, 1), c.signal.factor),
                          c.signal.offset))

(* The signal of the message definition that a printed line names *)
SignalNamed(c, name) ==
    LET ss == c.message_dict[c.msg.arbitration_id].signals
    IN  ss[CHOOSE i \in DOMAIN ss : ss[i].name = name]

IsScenario13(signal) ==
    /\ signal.start_bit = 0 /\ signal.length = 16
    /\ signal.byte_order = LittleEndian /\ signal.value_type = "+"
    /\ RatEq(signal.factor, Rat(1, 100))
    /\ RatEq(signal.offset, Rat(-320, 1))

\* C13: decode computes physical_value = raw_value * factor + offset; the
\* signal start_bit=0, length=16, LittleEndian, Unsigned, factor=0.01,
\* offset=-320 decodes data[0]=0x00, data[1]=0x7D to raw 32000 and to the
\* physical value 0.0.
C13_PhysicalValue ==
    \A n \in KnownMessageCalls :
      LET c == trace[n]
      IN  \A k \in DOMAIN c.ret.signals :
            LET line == c.ret.signals[k]
                signal == SignalNamed(c, line.name)
            IN  /\ line.value.num * signal.factor.den * signal.offset.den
                     = (line.raw_value * signal.factor.num * signal.offset.den
                        + signal.offset.num * signal.factor.den)
                       * line.value.den
                /\ (/\ IsScenario13(signal)
                    /\ c.msg.data[1] = 0
                    /\ c.msg.data[2] = 125)
                   => /\ line.raw_value = 32000
                      /\ line.value.num = 0

C13_Witness ==
    \E n \in KnownMessageCalls :
      LET c == trace[n]
      IN  \E k \in DOMAIN c.ret.signals :
            /\ IsScenario13(SignalNamed(c, c.ret.signals[k].name))
            /\ c.msg.data[1] = 0
            /\ c.msg.data[2] = 125
            /\ c.ret.signals[k].raw_value = 32000
            /\ c.ret.signals[k].value.num = 0

IsScenario14(c) ==
    /\ c.signal.start_bit = 8 /\ c.signal.length = 8
    /\ c.signal.byte_order = LittleEndian /\ c.signal.value_type = "+"
    /\ IsPlain(c.signal)
    /\ RatEq(c.value, Rat(100, 1))
    /\ c.pre = <<0, 0, 0, 0, 0, 0, 0, 0>>

\* C14: encoding the physical value 100.0 for a signal with factor=1,
\* offset=0, start_bit=8, length=8, LittleEndian, Unsigned into an 8-byte
\* zero buffer yields exactly the bytes [0,100,0,0,0,0,0,0].
C14_EncodeScenario ==
    \A n \in EncodeCalls :
      IsScenario14(trace[n])
      => /\ trace[n].post = <<0, 100, 0, 0, 0, 0, 0, 0>>
         /\ trace[n].error = "none"

C14_Witness ==
    \E n \in EncodeCalls :
      /\ IsScenario14(trace[n])
      /\ trace[n].post = <<0, 100, 0, 0, 0, 0, 0, 0>>
      /\ data_array = <<0, 100, 0, 0, 0, 0, 0, 0>>

\* C15: encoding any value for a signal whose byte_order is BigEndian
\* leaves every byte of the buffer unchanged and raises no error, whatever
\* start_bit and length are.
C15_BigEndianEncode ==
    \A n \in EncodeCalls :
      trace[n].signal.byte_order = BigEndian
      => /\ trace[n].post = trace[n].pre
         /\ trace[n].error = "none"

C15_Witness ==
    \E n \in EncodeCalls :
      LET c == trace[n]
      IN  /\ c.signal.byte_order = BigEndian
          /\ c.signal.start_bit + c.signal.length > 8 * Len(c.pre)
          /\ c.raw_value = (2 ^ c.signal.length) - 1
          /\ c.pre = <<0, 0, 0, 0, 0, 0, 0, 0>>
          /\ data_array = c.pre

\* C16: for a signal whose byte_order is BigEndian the raw value stays 0
\* for every buffer content, so the decoded physical value equals the
\* signal's offset and does not depend on the data bytes.
C16_BigEndianDecode ==
    \A n \in DecodeCalls :
      trace[n].signal.byte_order = BigEndian
      => /\ trace[n].raw_value = 0
         /\ RatEq(trace[n].ret, trace[n].signal.offset)

C16_Witness ==
    \E n \in DecodeCalls :
      LET c == trace[n]
      IN  /\ c.signal.byte_order = BigEndian
          /\ InBounds(c.signal, c.pre)
          /\ SumBits(c.pre, c.signal.start_bit, c.signal.length) > 0
          /\ c.signal.offset.num # 0
          /\ c.raw_value = 0
          /\ RatEq(c.ret, c.signal.offset)

(* The same signal with another declared range and unit *)
RangeVariants(signal) ==
    { [signal EXCEPT !.min_val = r[1], !.max_val = r[2], !.unit = r[3]]
        : r \in { <<Zero, Zero, "x">>,
                  <<Rat(-100000, 1), Rat(100000, 1), "m/s/s">> } }

\* C17: the buffer encode produces and the value decode produces do not
\* depend on a signal's min_val, max_val or unit: signal definitions that
\* differ only in those fields give the same results for every input, and
\* a physical value outside [min_val, max_val] is neither clamped nor
\* rejected.
C17_NoRangeCheck ==
    /\ \A n \in EncodeCalls :
         LET c == trace[n]
         IN  /\ c.error = "none"
             /\ \A v \in RangeVariants(c.signal) :
                  LET r == encode_signal(v, c.value, c.pre)
                  IN  /\ r.data_array = c.post
                      /\ r.raw_value = c.raw_value
                      /\ r.error = c.error
    /\ \A n \in DecodeCalls :
         LET c == trace[n]
         IN  \A v \in RangeVariants(c.signal) :
               LET r == decode_signal(v, c.pre)
               IN  /\ r.raw_value = c.raw_value
                   /\ r.physical_value = c.ret

C17_Witness ==
    \E n \in FittingEncodes :
      LET c == trace[n]
      IN  /\ c.value.num * c.signal.max_val.den
               > c.signal.max_val.num * c.value.den
          /\ c.signal.length > 8
          /\ c.raw_value = (2 ^ c.signal.length) - 1
          /\ c.post # c.pre
          /\ Len(trace) = 2
          /\ trace[2].raw_value = c.raw_value

(* An encode_signal call of a LittleEndian signal whose span passes the
   end of the buffer *)
OverflowingEncodes ==
    { n \in EncodeCalls :
        /\ trace[n].signal.byte_order = LittleEndian
        /\ trace[n].signal.start_bit >= 0
        /\ trace[n].signal.start_bit + trace[n].signal.length
             > 8 * Len(trace[n].pre) }

\* C18: encoding a LittleEndian signal with start_bit >= 0 whose span
\* exceeds the buffer raises no error and accesses no byte index
\* >= len(buffer); the signal is cut at the end of the buffer, and every
\* buffer bit below start_bit is unchanged.
C18_EncodeOverflow ==
    \A n \in OverflowingEncodes :
      LET c == trace[n]
      IN  /\ c.error = "none"
          /\ Len(c.post) = Len(c.pre)
          /\ \A k \in 0..(8 * Len(c.pre) - 1) :
               /\ k < c.signal.start_bit
                  => BufferBit(c.post, k) = BufferBit(c.pre, k)
               /\ k >= c.signal.start_bit
                  => BufferBit(c.post, k)
                       = IntBit(c.raw_value, k - c.signal.start_bit)

C18_Witness ==
    \E n \in OverflowingEncodes :
      LET c == trace[n]
      IN  /\ c.signal.start_bit = (8 * Len(c.pre)) - 6
          /\ c.signal.length = 9
          /\ c.raw_value = 42405 % (2 ^ c.signal.length)
          /\ c.error = "none"
          /\ c.post # c.pre
          /\ c.pre[Len(c.pre)] # 0

(* Two calls with the same arguments *)
SameCall(a, b) ==
    /\ a.op = b.op
    /\ a.op = "create_message_data"
       => a.msg_def = b.msg_def /\ a.signal_values = b.signal_values
    /\ a.op = "decode_signal" => a.signal = b.signal /\ a.pre = b.pre

SameResult(a, b) ==
    /\ a.ret = b.ret
    /\ a.op = "create_message_data" => a.error = b.error
    /\ a.op = "decode_signal" => a.raw_value = b.raw_value

Done == { self \in Threads : threads[self].pc = "done" }

(* What the call of a frame gives when nothing else runs *)
Alone(f) ==
    IF f.op = "create_message_data"
    THEN create_message_data(f.args[1], f.args[2])
    ELSE decode_signal(f.args[1], f.args[2])

\* C20: when two threads run create_message_data, or one of them
\* decode_signal, each on a buffer of its own, then under every interleaving
\* of the steps of their loops each call returns what it returns when it
\* runs alone, and a decode leaves its buffer as it was.
C20_ConcurrentUse ==
    \A self \in Done :
       LET f == threads[self]
       IN  /\ f.op = "create_message_data"
              => /\ f.st.error = Alone(f).error
                 /\ f.st.error = "none" => f.ret = Alone(f).data_array
           /\ f.op = "decode_signal"
              => /\ f.ret = Alone(f).physical_value
                 /\ f.st.data_array = f.args[2]

C20_Witness ==
    /\ Done = Threads
    /\ \A self \in Threads : threads[self].overlapped
    /\ threads[1].op = "create_message_data"
    /\ threads[2].op = "decode_signal"
    /\ \E i \in DOMAIN threads[1].ret : threads[1].ret[i] # 0
    /\ threads[2].ret.num # 0
    /\ threads[2].st.raw_value # threads[1].st.raw_value

(* two create_message_data calls interleaved, their results different *)
C20_WitnessEncodes ==
    /\ Done = Threads
    /\ \A self \in Threads :
         /\ threads[self].overlapped
         /\ threads[self].op = "create_message_data"
    /\ threads[1].ret # threads[2].ret

(* The most iterations the loop of a signal can make *)
IterationBound(signal) ==
    ((signal.start_bit % 8) + signal.length + 7) \div 8

(* The signals of the call of a frame *)
SignalsOf(f) ==
    IF f.op = "decode_signal" THEN <<f.args[1]>> ELSE f.args[1].signals

RECURSIVE BoundUpTo(_, _)
BoundUpTo(signals, n) ==
    IF n = 0 THEN 0
    ELSE BoundUpTo(signals, n - 1) + IterationBound(signals[n])

RECURSIVE LengthUpTo(_, _)
LengthUpTo(signals, n) ==
    IF n = 0 THEN 0
    ELSE LengthUpTo(signals, n - 1) + signals[n].length

(* The frames inside a call *)
Running == { self \in Threads : threads[self].pc \notin {"idle", "done"} }

\* C21: the loops of encode_signal and decode_signal terminate: every
\* iteration makes bits_remaining strictly smaller and never negative, a
\* signal's loop makes at most ceil(((start_bit mod 8) + length) / 8)
\* iterations, a call makes no more iterations than its signals have bits,
\* and a call that has not returned always has a next step.
C21_Termination ==
    /\ [](\A self \in Running :
            ENABLED <<\/ ThreadForSignal(self) \/ ThreadEncodeStep(self)
                      \/ ThreadDecodeStep(self) \/ ThreadReturn(self)>>_vars)
    /\ [](\A self \in Threads \ {s \in Threads : threads[s].pc = "idle"} :
            LET f == threads[self]
                signals == SignalsOf(f)
                n == IF f.op = "decode_signal" THEN 1
                     ELSE Min(f.idx, Len(signals))
            IN  /\ f.iterations <= BoundUpTo(signals, n)
                /\ f.iterations <= LengthUpTo(signals, n))
    /\ [][\A self \in Threads :
            threads'[self].iterations # threads[self].iterations
            => /\ threads'[self].iterations = threads[self].iterations + 1
               /\ threads'[self].st.bits_remaining
                    < threads[self].st.bits_remaining
               /\ threads'[self].st.bits_remaining >= 0]_vars

C21_Witness ==
    /\ threads[1].pc = "done"
    /\ threads[1].op = "create_message_data"
    /\ threads[1].iterations = 3
    /\ IterationBound(threads[1].args[1].signals[1]) = 3
    /\ threads[1].st.bits_remaining = 0

(* The messages built for transmission *)
Messages == { n \in DOMAIN trace : trace[n].op = "can.Message" }

\* C22: every caller that wraps an encoded payload in a CAN message sets
\* the extended-ID flag to true exactly when the message id is greater than
\* 0x7FF, and to false otherwise.
C22_ExtendedFlag ==
    \A n \in Messages :
       trace[n].is_extended_id <=> ExceedsStandard(trace[n].arbitration_id)

\* C23: decode_signal ignores value_type: on every buffer a signal declared
\* signed decodes to the same raw and physical value as the same signal
\* declared unsigned, and the raw value decoded is in [0, 2^length).
C23_ValueTypeIgnored ==
    \A n \in DecodeCalls :
       LET c == trace[n]
           signed == decode_signal([c.signal EXCEPT !.value_type = "-"],
                                   c.pre)
           unsigned == decode_signal([c.signal EXCEPT !.value_type = "+"],
                                     c.pre)
       IN  /\ c.ret = unsigned.physical_value
           /\ c.ret = signed.physical_value
           /\ c.raw_value = unsigned.raw_value
           /\ c.raw_value >= 0
           /\ c.raw_value < 2 ^ c.signal.length

C23_Witness ==
    \E n \in DecodeCalls :
       LET c == trace[n]
       IN  /\ c.signal.value_type = "-"
           /\ c.signal.byte_order = LittleEndian
           /\ InBounds(c.signal, c.pre)
           /\ c.signal.length > 1
           /\ c.raw_value >= 2 ^ (c.signal.length - 1)
           /\ c.raw_value = SumBits(c.pre, c.signal.start_bit, c.signal.length)

(* An encode of a negative raw value r that the span has room for, and the
   decode of the same signal after it *)
NegativeEncode ==
    /\ 1 \in FittingEncodes
    /\ LET r == IntTrunc(Quotient(trace[1]))
       IN  -(2 ^ trace[1].signal.length) <= r /\ r < 0

DecodedAfter ==
    /\ Len(trace) = 2
    /\ 2 \in DecodeCalls
    /\ trace[2].signal = trace[1].signal

(* A factor and an offset that binary floating point holds exactly *)
Dyadic(x) == \E k \in 0..10 : Norm(x).den = 2 ^ k

ExactScaling(signal) == Dyadic(signal.factor) /\ Dyadic(signal.offset)

(* 2^length * factor *)
Wrap(signal) == RatMul(Rat(2 ^ signal.length, 1), signal.factor)

C25_LoopInvariant ==
    [][\A self \in Threads :
         threads'[self].iterations # threads[self].iterations
         => LET st == threads[self].st
                after == threads'[self].st
                bits_in_this_byte == Min(8 - st.bit_pos, st.bits_remaining)
            IN  /\ 0 <= st.byte_pos
                /\ st.byte_pos < Len(st.data_array)
                /\ 0 <= st.bit_pos
                /\ st.bit_pos <= 7
                /\ 1 <= bits_in_this_byte
                /\ bits_in_this_byte <= 8 - st.bit_pos
                /\ after.error = "none"
                /\ Len(after.data_array) = Len(st.data_array)
                /\ \A i \in DOMAIN after.data_array :
                      after.data_array[i] \in 0..255]_vars

C25_Witness ==
    /\ threads[1].pc = "done"
    /\ threads[1].op = "create_message_data"
    /\ threads[1].iterations = 3
    /\ threads[1].st.raw_value = -3
    /\ threads[1].st.error = "none"
    /\ threads[1].ret[threads[1].st.byte_pos] # 0

(* a < b for rationals *)
RatLt(a, b) == a.num * b.den < b.num * a.den

(* value - offset of an encode call on doubles, exactly *)
Scaled(c) == DySub(c.value, FloatLiteral(c.signal.offset))

(* An encode of a double whose quotient is in the range of the raw value,
   and the decode of the same signal after it *)
InRangeRoundTrip ==
    /\ Len(trace) = 2
    /\ 1 \in FittingEncodes
    /\ 2 \in DecodeCalls
    /\ trace[2].signal = trace[1].signal
    /\ trace[1].signal.value_type = "+"
    /\ trace[1].signal.factor.num > 0
    /\ DyCmp(Scaled(trace[1]), DyInt(0)) >= 0
    /\ DyCmp(Scaled(trace[1]),
             DyMul(DyInt(2 ^ trace[1].signal.length),
                   FloatLiteral(trace[1].signal.factor))) < 0

\* C26: for a LittleEndian Unsigned signal that fits the buffer, with
\* factor > 0, and a value v with 0 <= (v - offset) / factor < 2^length,
\* decode(encode(v)) equals offset + factor * trunc((v - offset) / factor);
\* it is never greater than v, it is less than one factor below v, and it
\* equals v exactly when (v - offset) is an integer multiple of factor.
\* The quotient is taken as encode_signal computes it; the formula keeps
\* the clauses that compare doubles, which read the same however "integer
\* multiple" is read for a factor that no double holds.
C26_PhysicalRoundTrip ==
    InRangeRoundTrip
    => LET c == trace[1]
           v == c.value
           factor == FloatLiteral(c.signal.factor)
           offset == FloatLiteral(c.signal.offset)
           q == FloatDiv(FloatSub(v, offset), factor)
           decoded == trace[2].ret
       IN  /\ DyCmp(decoded,
                    FloatAdd(offset, FloatMul(factor, DyInt(FloatInt(q))))) = 0
           /\ DyCmp(decoded, v) <= 0
           /\ DyCmp(DySub(v, decoded), factor) < 0

(* The same items inserted in every order *)
Reorderings(items) ==
    { [i \in DOMAIN items |-> items[f[i]]]
        : f \in { g \in [DOMAIN items -> DOMAIN items]
                    : \A i \in DOMAIN items : \A j \in DOMAIN items :
                         g[i] = g[j] => i = j } }

(* The items whose name is a signal of the message *)
OfMessage(msg_def, items) ==
    SelectSeq(items,
              LAMBDA it : \E i \in DOMAIN msg_def.signals :
                             msg_def.signals[i].name = it[1])

\* C27: create_message_data applies the signals in the order of
\* msg_def.signals and looks the values up by name: the buffer returned is
\* the same for every insertion order of the values mapping, entries under
\* a name that is no signal of the message are ignored without error, and
\* where two signals overlap the one later in the definition list wins.
C27_DefinitionOrder ==
    \A n \in MessageCalls :
       LET c == trace[n]
           signals == c.msg_def.signals
       IN  /\ c.error = "none"
           /\ \A items \in Reorderings(c.items) :
                 create_message_data_items(c.msg_def, items).data_array
                   = c.ret
           /\ create_message_data_items(c.msg_def,
                  OfMessage(c.msg_def, c.items)).data_array = c.ret
           /\ \A j \in DOMAIN signals :
                 signals[j].name \in DOMAIN c.signal_values
                 => \A k \in 0..((8 * Len(c.ret)) - 1) :
                      (/\ InSpan(signals[j], k)
                       /\ \A i \in DOMAIN signals :
                            (i > j /\ signals[i].name
                                        \in DOMAIN c.signal_values)
                            => ~InSpan(signals[i], k))
                      => BufferBit(c.ret, k)
                           = IntBit(raw_of(signals[j],
                                           c.signal_values[signals[j].name]),
                                    k - signals[j].start_bit)

C27_Witness ==
    \E n \in MessageCalls :
       LET c == trace[n]
       IN  /\ Len(c.items) = 3
           /\ c.items[1][1] = "B"
           /\ c.items[2][1] = "X"
           /\ c.items[3][1] = "A"
           /\ c.msg_def.signals[1].name = "A"
           /\ ~Disjoint(c.msg_def.signals[1], c.msg_def.signals[2])
           /\ c.items[1][2] # c.items[3][2]
           /\ c.ret # create_message_data_items(
                         [c.msg_def EXCEPT !.signals =
                            <<c.msg_def.signals[2], c.msg_def.signals[1]>>],
                         c.items).data_array


(* Decimal values of a signal's range: both ends and grid points between *)
RangeSamples(signal) ==
    { FloatLiteral(signal.min_val), FloatLiteral(signal.max_val) }
    \cup { FloatLiteral(Norm(RatAdd(signal.min_val,
                                    RatMul(Rat(Grid[i] % Steps(signal), 1),
                                           signal.factor))))
             : i \in DOMAIN Grid }

DyAbs(a) == Dy(FALSE, a.m, a.e)

\* C28: the AccelerationSensor table is well formed: its seven signals have
\* pairwise disjoint bit spans, every span lies within the declared 7-byte
\* length, and every physical value in [min_val, max_val] maps to a raw
\* value in [0, 2^length); every frame built by the sender decodes each
\* signal to within one factor of the value that was encoded.
C28_TableWellFormed ==
    LET signals == AccelerationSensor.signals
    IN  /\ Len(signals) = 7
        /\ \A i \in DOMAIN signals : \A j \in DOMAIN signals :
              i # j => Disjoint(signals[i], signals[j])
        /\ \A i \in DOMAIN signals :
              signals[i].start_bit + signals[i].length
                <= 8 * AccelerationSensor.length
        /\ trace = <<>>
           => \A i \in DOMAIN signals : \A v \in RangeSamples(signals[i]) :
                 raw_of_float(signals[i], v)
                   \in 0..((2 ^ signals[i].length) - 1)
        /\ \A n \in EncodeCalls :
              /\ trace[n].error = "none"
              /\ DyCmp(FloatLiteral(trace[n].signal.min_val),
                       trace[n].value) <= 0
              /\ DyCmp(trace[n].value,
                       FloatLiteral(trace[n].signal.max_val)) <= 0
              /\ trace[n].raw_value
                   \in 0..((2 ^ trace[n].signal.length) - 1)
        /\ \A n \in DOMAIN trace : trace[n].op # "skipped"
        /\ \A n \in DecodeCalls :
              /\ trace[n - Len(signals)].op = "encode_signal"
              /\ trace[n - Len(signals)].signal = trace[n].signal
              /\ DyCmp(DyAbs(DySub(trace[n - Len(signals)].value,
                                   trace[n].ret)),
                       FloatLiteral(trace[n].signal.factor)) <= 0

(* A frame decoded in which LateralAccelerationExRange was drawn just below
   -127.92: raw 19207, decoded more than half a factor below the value *)
C28_Witness ==
    /\ Len(trace) = 15
    /\ trace[7].signal.name = "LateralAccelerationExRange"
    /\ trace[7].raw_value = 19207
    /\ trace[14].op = "decode_signal"
    /\ trace[14].signal = trace[7].signal
    /\ DyCmp(trace[14].ret, trace[7].value) < 0
    /\ DyCmp(DyMul(DyInt(2), DySub(trace[7].value, trace[14].ret)),
             FloatLiteral(trace[7].signal.factor)) > 0

(***************************************************************************)
(* CANInterface of can_interface.py                                        *)
(***************************************************************************)

(* 'bus': None *)
None == 0

(* The names, roles and messages the callers pass *)
InterfaceNames == {"can1", "can2"}

Roles == {"sender", "receiver", "both"}

CanMessages == {[arbitration_id |-> 291, data |-> <<1, 2>>, is_extended_id |-> TRUE]}

(* test_msg = can.Message(arbitration_id=0x000, data=[0], is_extended_id=False) *)
test_msg == [arbitration_id |-> 0, data |-> <<0>>, is_extended_id |-> FALSE]

(* can.interface.Bus(...): a bus as created, nothing sent on it *)
Bus(channel) ==
    [channel |-> channel, state |-> "open", sent |-> <<>>, shutdowns |-> 0]

(* bus.shutdown() *)
shutdown(bus) == [bus EXCEPT !.state = "shutdown", !.shutdowns = @ + 1]

(* The place of a key among the items of the dict, 0 when it is no key *)
IndexOf(interfaces, name) ==
    IF \E i \in 1..Len(interfaces) : interfaces[i].name = name
    THEN CHOOSE i \in 1..Len(interfaces) : interfaces[i].name = name
    ELSE 0

(* self.interfaces[name] = {...}: a new key goes last, a key already there
   keeps its place and loses its bus *)
add_interface(self, name, role) ==
    LET config == [name |-> name, role |-> role, bus |-> None]
        i      == IndexOf(self.interfaces, name)
    IN  [self EXCEPT !.interfaces =
            IF i = 0 THEN Append(@, config) ELSE [@ EXCEPT ![i] = config]]

(* What the hardware does to one start or send: "ok", "bus_error" for a
   can.interface.Bus(...) that raises, "send_error" for a bus.send that
   raises *)
Outcomes == {"ok", "bus_error", "send_error"}

(* The body of the for loop of start for the item i: the bus created, the
   test message sent for a sender, the bus stored and the receive thread
   started; raised when the except clause raises RuntimeError *)
start_body(st, i, outcome) ==
    LET config == st.self.interfaces[i]
        b      == Len(st.buses) + 1
        made   == Append(st.buses, Bus(config.name))
        sends  == config.role \in {"sender", "both"}
        stored == [st.self EXCEPT
                     !.interfaces[i].bus = b,
                     !.receive_threads =
                         IF config.role \in {"receiver", "both"}
                         THEN @ \cup {config.name} ELSE @]
    IN  IF outcome = "bus_error"
        THEN [st EXCEPT !.raised = TRUE]
        ELSE IF sends /\ outcome = "send_error"
        THEN [st EXCEPT !.buses = made, !.raised = TRUE]
        ELSE [self |-> stored,
              buses |-> IF sends
                        THEN [made EXCEPT ![b].sent = Append(@, test_msg)]
                        ELSE made,
              hardware_connected |-> TRUE,
              raised |-> FALSE]

(* for name, config in self.interfaces.items(), from the item i on; the
   item failing takes the outcome, the others are "ok" *)
RECURSIVE start_loop(_, _, _, _)
start_loop(st, i, failing, outcome) ==
    IF i > Len(st.self.interfaces) \/ st.raised THEN st
    ELSE start_loop(start_body(st, i, IF i = failing THEN outcome ELSE "ok"),
                    i + 1, failing, outcome)

(* start *)
start(self, bs, failing, outcome) ==
    LET st == start_loop([self |-> [self EXCEPT !.running = TRUE],
                          buses |-> bs, hardware_connected |-> FALSE,
                          raised |-> FALSE], 1, failing, outcome)
    IN  IF ~st.raised /\ ~st.hardware_connected /\ ~self.allow_virtual
        THEN [st EXCEPT !.self.running = FALSE, !.raised = TRUE]
        ELSE st

(* send without its test of the role *)
sendAnyRole(self, bs, interface_name, message, outcome) ==
    LET i == IndexOf(self.interfaces, interface_name)
        b == self.interfaces[i].bus
    IN  IF i = 0
        THEN [ret |-> FALSE, buses |-> bs, raised |-> FALSE]
        ELSE IF b = None
        THEN [ret |-> FALSE, buses |-> bs, raised |-> FALSE]
        ELSE IF outcome = "ok"
        THEN [ret |-> TRUE, raised |-> FALSE,
              buses |-> [bs EXCEPT ![b].sent = Append(@, message)]]
        ELSE [ret |-> FALSE, buses |-> bs, raised |-> FALSE]

(* send: the three tests, then bus.send in try / except Exception *)
send(self, bs, interface_name, message, outcome) ==
    LET i == IndexOf(self.interfaces, interface_name)
        b == self.interfaces[i].bus
    IN  IF i = 0
        THEN [ret |-> FALSE, buses |-> bs, raised |-> FALSE]
        ELSE IF b = None
        THEN [ret |-> FALSE, buses |-> bs, raised |-> FALSE]
        ELSE IF self.interfaces[i].role \notin {"sender", "both"}
        THEN [ret |-> FALSE, buses |-> bs, raised |-> FALSE]
        ELSE IF outcome = "ok"
        THEN [ret |-> TRUE, raised |-> FALSE,
              buses |-> [bs EXCEPT ![b].sent = Append(@, message)]]
        ELSE [ret |-> FALSE, buses |-> bs, raised |-> FALSE]

(* stop: every bus of the dict shut down *)
stop(self, bs) ==
    [self  |-> [self EXCEPT !.running = FALSE],
     buses |-> [b \in 1..Len(bs) |->
                  IF \E i \in 1..Len(self.interfaces) :
                         self.interfaces[i].bus = b
                  THEN shutdown(bs[b])
                  ELSE bs[b]]]

(* The calls a user of the object makes, up to MaxIfaceCalls of them *)
AddInterfaceCall ==
    /\ Len(trace) < MaxIfaceCalls
    /\ \E name \in InterfaceNames, role \in Roles :
          /\ can_interface' = add_interface(can_interface, name, role)
          /\ trace' = Append(trace, [op |-> "add_interface", name |-> name,
                                     role |-> role])
    /\ UNCHANGED <<data_array, threads, buses, exit_event>>

StartCall ==
    /\ Len(trace) < MaxIfaceCalls
    /\ \E failing \in 0..Len(can_interface.interfaces) :
       \E outcome \in IF failing = 0 THEN {"ok"} ELSE Outcomes \ {"ok"} :
          LET st == start(can_interface, buses, failing, outcome)
          IN  /\ can_interface' = st.self
              /\ buses' = st.buses
              /\ trace' = Append(trace, [op |-> "start",
                                         raised |-> st.raised])
    /\ UNCHANGED <<data_array, threads, exit_event>>

SendCall ==
    /\ Len(trace) < MaxIfaceCalls
    /\ \E name \in InterfaceNames, message \in CanMessages,
          outcome \in {"ok", "send_error"} :
          LET r == send(can_interface, buses, name, message, outcome)
          IN  /\ buses' = r.buses
              /\ trace' = Append(trace,
                    [op |-> "send", name |-> name, message |-> message,
                     self |-> can_interface, pre |-> buses,
                     post |-> r.buses, outcome |-> outcome,
                     ret |-> r.ret, raised |-> r.raised])
    /\ UNCHANGED <<data_array, threads, can_interface, exit_event>>

StopCall ==
    /\ Len(trace) < MaxIfaceCalls
    /\ LET r == stop(can_interface, buses)
       IN  /\ can_interface' = r.self
           /\ buses' = r.buses
    /\ trace' = Append(trace, [op |-> "stop"])
    /\ UNCHANGED <<data_array, threads, exit_event>>

NextInterface ==
    \/ AddInterfaceCall
    \/ StartCall
    \/ SendCall
    \/ StopCall

InitInterface ==
    /\ data_array = <<>>
    /\ trace = <<>>
    /\ threads = [self \in Threads |-> IdleFrame]
    /\ can_interface \in {NewCANInterface(v) : v \in BOOLEAN}
    /\ buses = <<>>
    /\ exit_event = FALSE

SpecInterface == InitInterface /\ [][NextInterface]_vars

(* The send calls made so far *)
SendCalls == {n \in 1..Len(trace) : trace[n].op = "send"}

(* The item of the name a send call was given, as the call found it *)
Config(c) == c.self.interfaces[IndexOf(c.self.interfaces, c.name)]

(* name was added, its bus is one that start made, its role lets it send *)
MaySend(c) ==
    /\ IndexOf(c.self.interfaces, c.name) # 0
    /\ Config(c).bus \in 1..Len(c.pre)
    /\ Config(c).role \in {"sender", "both"}

\* C29: after any sequence of add_interface, start, send and stop calls, a
\* send puts a message on a bus or returns True only if the name was added,
\* its bus was made by start and its role is 'sender' or 'both'; otherwise
\* it returns False and leaves every bus as it was; a bus send that fails
\* returns False and nothing is raised.
C29_SendGating ==
    \A n \in SendCalls :
        LET c == trace[n]
        IN  /\ c.raised = FALSE
            /\ c.ret \in BOOLEAN
            /\ (c.ret \/ c.post # c.pre) => MaySend(c)
            /\ ~MaySend(c) => (c.ret = FALSE /\ c.post = c.pre)
            /\ c.outcome = "send_error" => (c.ret = FALSE /\ c.post = c.pre)
            /\ c.ret => /\ Len(c.post) = Len(c.pre)
                        /\ \A b \in 1..Len(c.pre) :
                              c.post[b] =
                                 IF b = Config(c).bus
                                 THEN [c.pre[b] EXCEPT
                                         !.sent = Append(@, c.message)]
                                 ELSE c.pre[b]

(* a run with a send that goes out on a 'both' interface and a send on an
   added name that returns False *)
C29_Witness ==
    /\ \E n \in SendCalls : trace[n].ret /\ Config(trace[n]).role = "both"
    /\ \E n \in SendCalls :
          /\ IndexOf(trace[n].self.interfaces, trace[n].name) # 0
          /\ ~trace[n].ret

(***************************************************************************)
(* sender, receiver and main of pcan_decode.py                             *)
(***************************************************************************)

(* The frame of main and of a thread not yet started *)
MainFrame == [pc |-> "start_sender", error |-> FALSE]

ThreadFrame ==
    [pc |-> "unstarted", bus |-> None, cycles |-> 0, idx |-> 0,
     message |-> <<>>, log |-> <<>>, error |-> FALSE]

(* a loop that never looks at the event *)
WhileTrue(event) == TRUE

(* while not exit_event.is_set() *)
WhileNotSet(event) == ~event

(* What a thread did, with the state of the event as it did it *)
Logged(f, op) == [f EXCEPT !.log = Append(@, [op |-> op, set |-> exit_event])]

(* The values the sender draws: every signal at its least or at its
   largest value *)
DrawnValues(msg_def) ==
    { [name \in {msg_def.signals[i].name : i \in DOMAIN msg_def.signals} |->
         LET signal == msg_def.signals[CHOOSE i \in DOMAIN msg_def.signals :
                                          msg_def.signals[i].name = name]
         IN  IF top THEN signal.max_val ELSE signal.min_val]
      : top \in BOOLEAN }

(* The messages that reach the receiver's bus *)
ReceivedMessages ==
    { [arbitration_id |-> AccelerationSensor.id,
       data |-> <<1, 35, 69, 103, 137, 171, 205, 239>>],
      [arbitration_id |-> CanId(0, 291), data |-> <<0, 0>>] }

(* data = create_message_data(msg_def, signal_values) for each of the
   draws of each message of the table *)
SenderData ==
    [i \in DOMAIN create_message_definitions |->
        { create_message_data(create_message_definitions[i], signal_values) :
            signal_values \in DrawnValues(create_message_definitions[i]) }]

(* decode_message(message, message_dict) for each message received *)
ReceiverDecoded ==
    [message \in ReceivedMessages |->
        decode_message(message, MessageDict(create_message_definitions))]

(* sender_bus = can.interface.Bus(...), which may raise *)
SenderOpenBus ==
    /\ threads["sender"].pc = "init"
    /\ \/ /\ buses' = Append(buses, Bus("PCAN_USBBUS1"))
          /\ threads' = [threads EXCEPT !["sender"].bus = Len(buses) + 1,
                                        !["sender"].pc = "while"]
       \/ /\ threads' = [threads EXCEPT !["sender"].error = TRUE,
                                        !["sender"].pc = "finally"]
          /\ UNCHANGED buses
    /\ UNCHANGED <<data_array, trace, can_interface, exit_event>>

(* while not exit_event.is_set(): at most MaxCycles cycles are begun *)
SenderLoopTest ==
    /\ threads["sender"].pc = "while"
    /\ exit_event \/ threads["sender"].cycles < MaxCycles
    /\ threads' = [threads EXCEPT !["sender"] =
          LET f == Logged(@, "test")
          IN  IF WhileNotSet(exit_event)
              THEN [f EXCEPT !.pc = "for", !.idx = 1, !.cycles = @ + 1]
              ELSE [f EXCEPT !.pc = "finally"]]
    /\ UNCHANGED <<data_array, trace, can_interface, buses, exit_event>>

(* The body of for msg_def in messages: the values drawn, the data packed,
   the message sent, which may raise, and time.sleep(0.5) *)
SenderSend ==
    /\ threads["sender"].pc = "for"
    /\ threads["sender"].idx <= Len(create_message_definitions)
    /\ LET f       == threads["sender"]
           msg_def == create_message_definitions[f.idx]
       IN  \E data \in SenderData[f.idx] :
              LET message == [arbitration_id |-> msg_def.id,
                              data |-> data.data_array,
                              is_extended_id |-> TRUE]
              IN  \/ /\ data.error = "none"
                     /\ buses' = [buses EXCEPT ![f.bus].sent =
                                                   Append(@, message)]
                     /\ threads' = [threads EXCEPT !["sender"] =
                           [Logged(@, "send") EXCEPT !.idx = @ + 1]]
                  \/ /\ threads' = [threads EXCEPT !["sender"] =
                           [@ EXCEPT !.error = TRUE, !.pc = "finally"]]
                     /\ UNCHANGED buses
    /\ UNCHANGED <<data_array, trace, can_interface, exit_event>>

(* The end of the for loop and time.sleep(1) *)
SenderCycleEnd ==
    /\ threads["sender"].pc = "for"
    /\ threads["sender"].idx > Len(create_message_definitions)
    /\ threads' = [threads EXCEPT !["sender"].pc = "while"]
    /\ UNCHANGED <<data_array, trace, can_interface, buses, exit_event>>

(* finally: if 'sender_bus' in locals(): sender_bus.shutdown() *)
SenderFinally ==
    /\ threads["sender"].pc = "finally"
    /\ LET f == threads["sender"]
       IN  IF f.bus # None
           THEN /\ buses' = [buses EXCEPT ![f.bus] = shutdown(@)]
                /\ threads' = [threads EXCEPT !["sender"] =
                      [Logged(@, "shutdown") EXCEPT !.pc = "done"]]
           ELSE /\ threads' = [threads EXCEPT !["sender"].pc = "done"]
                /\ UNCHANGED buses
    /\ UNCHANGED <<data_array, trace, can_interface, exit_event>>

(* receiver_bus = can.interface.Bus(...), which may raise *)
ReceiverOpenBus ==
    /\ threads["receiver"].pc = "init"
    /\ \/ /\ buses' = Append(buses, Bus("PCAN_USBBUS2"))
          /\ threads' = [threads EXCEPT !["receiver"].bus = Len(buses) + 1,
                                        !["receiver"].pc = "while"]
       \/ /\ threads' = [threads EXCEPT !["receiver"].error = TRUE,
                                        !["receiver"].pc = "finally"]
          /\ UNCHANGED buses
    /\ UNCHANGED <<data_array, trace, can_interface, exit_event>>

(* while not exit_event.is_set(): at most MaxCycles receives are begun *)
ReceiverLoopTest ==
    /\ threads["receiver"].pc = "while"
    /\ exit_event \/ threads["receiver"].cycles < MaxCycles
    /\ threads' = [threads EXCEPT !["receiver"] =
          LET f == Logged(@, "test")
          IN  IF WhileNotSet(exit_event)
              THEN [f EXCEPT !.pc = "recv", !.cycles = @ + 1]
              ELSE [f EXCEPT !.pc = "finally"]]
    /\ UNCHANGED <<data_array, trace, can_interface, buses, exit_event>>

(* message = receiver_bus.recv(1.0): a message, None after the timeout, or
   an exception *)
ReceiverRecv ==
    /\ threads["receiver"].pc = "recv"
    /\ \/ \E message \in ReceivedMessages :
             threads' = [threads EXCEPT !["receiver"] =
                [Logged(@, "recv") EXCEPT !.pc = "decode",
                                          !.message = message]]
       \/ threads' = [threads EXCEPT !["receiver"] =
             [Logged(@, "recv") EXCEPT !.pc = "while"]]
       \/ threads' = [threads EXCEPT !["receiver"] =
             [Logged(@, "recv") EXCEPT !.pc = "finally", !.error = TRUE]]
    /\ UNCHANGED <<data_array, trace, can_interface, buses, exit_event>>

(* if message is not None: decode_message(message, message_dict) *)
ReceiverDecodeMessage ==
    /\ threads["receiver"].pc = "decode"
    /\ LET f   == threads["receiver"]
           ret == ReceiverDecoded[f.message]
       IN  threads' = [threads EXCEPT !["receiver"] =
              [f EXCEPT !.pc = "while", !.message = <<>>,
                        !.log = Append(@, [op |-> "decode_message",
                                           set |-> exit_event,
                                           known |-> ret.known])]]
    /\ UNCHANGED <<data_array, trace, can_interface, buses, exit_event>>

(* finally: if 'receiver_bus' in locals(): receiver_bus.shutdown() *)
ReceiverFinally ==
    /\ threads["receiver"].pc = "finally"
    /\ LET f == threads["receiver"]
       IN  IF f.bus # None
           THEN /\ buses' = [buses EXCEPT ![f.bus] = shutdown(@)]
                /\ threads' = [threads EXCEPT !["receiver"] =
                      [Logged(@, "shutdown") EXCEPT !.pc = "done"]]
           ELSE /\ threads' = [threads EXCEPT !["receiver"].pc = "done"]
                /\ UNCHANGED buses
    /\ UNCHANGED <<data_array, trace, can_interface, exit_event>>

(* sender_thread.start() *)
MainStartSender ==
    /\ threads["main"].pc = "start_sender"
    /\ threads' = [threads EXCEPT !["main"].pc = "start_receiver",
                                  !["sender"].pc = "init"]
    /\ UNCHANGED <<data_array, trace, can_interface, buses, exit_event>>

(* receiver_thread.start() *)
MainStartReceiver ==
    /\ threads["main"].pc = "start_receiver"
    /\ threads' = [threads EXCEPT !["main"].pc = "loop",
                                  !["receiver"].pc = "init"]
    /\ UNCHANGED <<data_array, trace, can_interface, buses, exit_event>>

(* Ctrl+C anywhere inside the try block *)
MainKeyboardInterrupt ==
    /\ threads["main"].pc \in {"start_sender", "start_receiver", "loop"}
    /\ threads' = [threads EXCEPT !["main"].pc = "except"]
    /\ UNCHANGED <<data_array, trace, can_interface, buses, exit_event>>

(* exit_event.set() *)
MainSetExitEvent ==
    /\ threads["main"].pc = "except"
    /\ exit_event' = TRUE
    /\ threads' = [threads EXCEPT !["main"].pc = "join_sender"]
    /\ UNCHANGED <<data_array, trace, can_interface, buses>>

(* sender_thread.join(timeout=2.0): it returns when the thread has ended
   or the two seconds have passed, and raises RuntimeError for a thread
   that was never started *)
MainJoinSender ==
    /\ threads["main"].pc = "join_sender"
    /\ threads' = [threads EXCEPT !["main"] =
          IF threads["sender"].pc = "unstarted"
          THEN [@ EXCEPT !.pc = "done", !.error = TRUE]
          ELSE [@ EXCEPT !.pc = "join_receiver"]]
    /\ UNCHANGED <<data_array, trace, can_interface, buses, exit_event>>

(* receiver_thread.join(timeout=2.0) *)
MainJoinReceiver ==
    /\ threads["main"].pc = "join_receiver"
    /\ threads' = [threads EXCEPT !["main"] =
          IF threads["receiver"].pc = "unstarted"
          THEN [@ EXCEPT !.pc = "done", !.error = TRUE]
          ELSE [@ EXCEPT !.pc = "done"]]
    /\ UNCHANGED <<data_array, trace, can_interface, buses, exit_event>>

SenderNext ==
    \/ SenderOpenBus
    \/ SenderLoopTest
    \/ SenderSend
    \/ SenderCycleEnd
    \/ SenderFinally

ReceiverNext ==
    \/ ReceiverOpenBus
    \/ ReceiverLoopTest
    \/ ReceiverRecv
    \/ ReceiverDecodeMessage
    \/ ReceiverFinally

MainNext ==
    \/ MainStartSender
    \/ MainStartReceiver
    \/ MainKeyboardInterrupt
    \/ MainSetExitEvent
    \/ MainJoinSender
    \/ MainJoinReceiver

NextShutdown ==
    \/ SenderNext
    \/ ReceiverNext
    \/ MainNext

InitShutdown ==
    /\ data_array = <<>>
    /\ trace = <<>>
    /\ threads = [t \in {"main", "sender", "receiver"} |->
                    IF t = "main" THEN MainFrame ELSE ThreadFrame]
    /\ can_interface = NewCANInterface(FALSE)
    /\ buses = <<>>
    /\ exit_event = FALSE

SpecShutdown == InitShutdown /\ [][NextShutdown]_vars

(* A started thread is scheduled again and again; bus.recv(1.0), time.sleep
   and bus.send return or raise.  Nothing makes Ctrl+C arrive. *)
SpecShutdownLive ==
    /\ SpecShutdown
    /\ WF_vars(SenderNext)
    /\ WF_vars(ReceiverNext)
    /\ WF_vars(MainSetExitEvent)

(* sender_thread and receiver_thread *)
Workers == {"sender", "receiver"}

(* The places in the log of a thread where it did op *)
Did(t, op) == {n \in DOMAIN threads[t].log : threads[t].log[n].op = op}

(* the same, with the event already set *)
DidAfterSet(t, op) == {n \in Did(t, op) : threads[t].log[n].set}

(* every thread that was started has returned *)
Exited == \A t \in Workers : threads[t].pc \in {"unstarted", "done"}

(* a loop test that finds the event set is the last thing a thread does
   before its shutdown *)
LeavesAtTest(t) ==
    \A n \in DidAfterSet(t, "test") :
       \A m \in DOMAIN threads[t].log :
          m > n => threads[t].log[m].op = "shutdown"

(* the bus a thread made is shut down once when the thread has returned,
   and not before *)
ShutDownOnce(t) ==
    LET f == threads[t]
    IN  /\ f.bus # None
           => /\ buses[f.bus].shutdowns = IF f.pc = "done" THEN 1 ELSE 0
              /\ buses[f.bus].state =
                    IF f.pc = "done" THEN "shutdown" ELSE "open"
        /\ f.bus = None /\ f.pc = "done" => f.error
        /\ Cardinality(Did(t, "shutdown")) <= 1
        /\ \A n \in Did(t, "shutdown") : n = Len(f.log) /\ f.pc = "done"

\* C30: once exit_event is set the receiver makes at most one more receive
\* attempt and the sender sends no more than the messages of the cycle in
\* progress, each leaving at its next loop test; a thread that made its bus
\* shuts it down exactly once as it returns, also after an error; nothing
\* is sent, received or decoded on a bus after its shutdown; and every
\* thread that runs does return after the event is set.
C30_Shutdown ==
    /\ [](/\ \A t \in Workers : LeavesAtTest(t) /\ ShutDownOnce(t)
          /\ Cardinality(DidAfterSet("receiver", "recv")) <= 1
          /\ Cardinality(DidAfterSet("sender", "send"))
                <= Len(create_message_definitions)
          /\ Cardinality(DidAfterSet("sender", "test")) <= 1
          /\ Cardinality(DidAfterSet("receiver", "test")) <= 1)
    /\ [][\A b \in DOMAIN buses :
             buses[b].state = "shutdown" => buses'[b] = buses[b]]_vars
    /\ (exit_event ~> Exited)

(* the event set while both threads were inside their loops: the sender
   sent the message of its cycle and the receiver made one more attempt,
   which raised; both have returned with their buses shut down once *)
C30_Witness ==
    /\ exit_event
    /\ \A t \in Workers :
          /\ threads[t].pc = "done"
          /\ threads[t].bus # None
          /\ buses[threads[t].bus].shutdowns = 1
    /\ DidAfterSet("sender", "send") # {}
    /\ DidAfterSet("receiver", "recv") # {}
    /\ threads["receiver"].error
    /\ ~threads["sender"].error

=============================================================================
